---- MODULE Spec2Model ----
(***************************************************************************)
(* Model of the claudecode-telegram bridge (src/bridge.py): the backend    *)
(* protocol, the WorkerManager (hire / end / restart / send / is_online    *)
(* with reconciliation against tmux and the on-disk markers), the pending  *)
(* marker, the worker pipes and the CommandRouter's routed sends.          *)
(*                                                                         *)
(* External state (tmux sessions, the files under SESSIONS_DIR, the FIFOs) *)
(* is kept in variables of its own.  A handler is one action: the code of  *)
(* the handler is written as operators over a record W of all the state    *)
(* ("world"), composed in the order of the calls of the code, and the      *)
(* action commits the resulting record.  What the environment decides      *)
(* (directory enumeration order, a tmux call that fails) is an input of    *)
(* the action.  out holds what the last handler returned and did (the      *)
(* keystrokes written, sessions created and killed, processes spawned,     *)
(* replies sent), so that properties of one call can be stated.            *)
(***************************************************************************)
EXTENDS Integers, Sequences, FiniteSets, TLC

\* ------------------------------------------------------------------ bounds
MaxFine == 3          \* fine clock steps (half seconds) explored after each jump
MaxJumps == 2         \* long clock jumps explored
NumThreads == 2       \* handler threads running at once (ThreadingHTTPServer)

\* --------------------------------------------------------- program constants
TMUX_PREFIX == "claude-"                       \* bridge.py:34
DEFAULT_BACKEND == "claude"                    \* bridge.py:76
BACKENDS == {"claude", "codex", "gemini", "opencode"}   \* bridge.py:275
PENDING_TIMEOUT == 600                         \* bridge.py:1250
TicksPerSec == 2      \* clock resolution of the model: time.time() is fractional
NoChat == 0           \* chat_id: int = None (falsy)

WorkerNames == {"alice", "bob", "carol"}
NoWorker == ""        \* state["active"] = None
NoFile == <<>>        \* a path that does not exist
EmptyText == <<>>     \* the text of a file that was opened for writing and not yet written
NoSession == <<>>     \* session.get("tmux") of an exec-mode entry
WELCOME == "welcome"
START_CMD == "claude --dangerously-skip-permissions"

VARIABLES
    tmux,           \* the tmux server's sessions, each <<prefix, name>>
    tmuxEnv,        \* name -> WORKER_BACKEND in the session's environment ("" unset)
    procRunning,    \* sessions whose pane runs the claude process
    backendFile,    \* name -> SESSIONS_DIR/<name>/backend: NoFile or <<text>>
    pendingFile,    \* name -> SESSIONS_DIR/<name>/pending: NoFile or <<text>>
    chatIdFile,     \* name -> SESSIONS_DIR/<name>/chat_id: NoFile or <<text>>
    sessionIdFiles, \* names with a *_session_id file (adapter continuation state)
    inboxFiles,     \* names with files in their inbox
    pipes,          \* names whose FIFO in.pipe exists
    readers,        \* keys of _pipe_reader_threads
    active,         \* state["active"]
    lastActive,     \* the last_active file ("" when absent)
    adminChat,      \* admin_chat_id (NoChat: None)
    startupNotified,\* state["startup_notified"]
    lastChatId,     \* the last_chat_id file (NoChat when absent)
    now,            \* time.time(), in ticks of 1/TicksPerSec seconds
    jumps,          \* long clock jumps taken (bounds the exploration)
    out,            \* what the last handler returned and did
    \* --- the thread-level specifications (handlers interleaved step by step)
    th,             \* thread -> its program counter and locals
    sendLocks,      \* _tmux_send_locks: session -> the thread holding its Lock (0: free)
    guard,          \* _tmux_send_locks_guard: the thread holding it (0: free)
    pane,           \* session -> the keystrokes tmux wrote into it, in order
    adapters,       \* worker -> adapter subprocesses started that have not posted yet
    rd              \* the pipe-reader threads, their FIFOs and what they forwarded
                    \* (followed in the pipe specifications; elsewhere readers has the keys)

tvars == <<th, sendLocks, guard, pane, adapters, rd>>

vars == <<tmux, tmuxEnv, procRunning, backendFile, pendingFile, chatIdFile,
          sessionIdFiles, inboxFiles, pipes, readers, active, lastActive,
          adminChat, startupNotified, lastChatId, now, jumps, out, tvars>>

\* The state as one record, for the operators that model the code.
W == [tmux |-> tmux, tmuxEnv |-> tmuxEnv, procRunning |-> procRunning,
      backendFile |-> backendFile, pendingFile |-> pendingFile,
      chatIdFile |-> chatIdFile, sessionIdFiles |-> sessionIdFiles,
      inboxFiles |-> inboxFiles, pipes |-> pipes, readers |-> readers,
      active |-> active, lastActive |-> lastActive, adminChat |-> adminChat,
      startupNotified |-> startupNotified, lastChatId |-> lastChatId,
      now |-> now, out |-> out]

CommitW(w) ==
    /\ tmux' = w.tmux
    /\ tmuxEnv' = w.tmuxEnv
    /\ procRunning' = w.procRunning
    /\ backendFile' = w.backendFile
    /\ pendingFile' = w.pendingFile
    /\ chatIdFile' = w.chatIdFile
    /\ sessionIdFiles' = w.sessionIdFiles
    /\ inboxFiles' = w.inboxFiles
    /\ pipes' = w.pipes
    /\ readers' = w.readers
    /\ active' = w.active
    /\ lastActive' = w.lastActive
    /\ adminChat' = w.adminChat
    /\ startupNotified' = w.startupNotified
    /\ lastChatId' = w.lastChatId
    /\ now' = w.now
    /\ out' = w.out

\* a handler that runs from start to end with no other thread in between
Commit(w) == CommitW(w) /\ UNCHANGED <<jumps, tvars>>

\* ---------------------------------------------------- the handler's report
NoOut == [op |-> "", name |-> NoWorker, arg |-> "", ok |-> FALSE, err |-> <<>>,
          keys |-> <<>>, envs |-> {}, created |-> {}, kills |-> {},
          spawns |-> <<>>, replies |-> <<>>, delivered |-> <<>>, status |-> 0,
          sends |-> <<>>, answer |-> FALSE, reg |-> {}, text |-> "",
          events |-> <<>>, msg |-> <<>>]

Begin(w, op, name) == [w EXCEPT !.out = [NoOut EXCEPT !.op = op, !.name = name]]
Return(w, ok, err) == [w EXCEPT !.out.ok = ok, !.out.err = err]

\* the order in which a handler did what it did for a worker
Event(w, what, name) == [w EXCEPT !.out.events = Append(@, <<what, name>>)]

\* subprocess.run(["tmux", "send-keys", "-t", s, ...]) that succeeded
SendKeys(w, s, key) == [w EXCEPT !.out.keys = Append(@, <<s, key>>)]

\* ------------------------------------------------------------ the backends
normalize_backend(b) == IF b = "" THEN DEFAULT_BACKEND ELSE b
is_valid_backend(b) == b \in BACKENDS
get_backend(b) == IF b \in BACKENDS THEN b ELSE DEFAULT_BACKEND
is_exec(b) == b # "claude"

TmuxName(n) == <<TMUX_PREFIX, n>>
tmux_exists(w, s) == s \in w.tmux
is_process_running(w, s) == s \in w.procRunning
is_claude_running(w, s) == is_process_running(w, s)

\* ------------------------------------------------------ persistence helpers
\* mutant of save_last_active: the file is not written
save_last_active_Skipped(w, name) == w

save_last_active(w, name) == [w EXCEPT !.lastActive = name]
load_last_active(w) == w.lastActive

\* ------------------------------------------------------- the pending marker
\* int(time.time()): whole seconds
Seconds(t) == t \div TicksPerSec

\* Path.write_text opens the file for writing, which creates or truncates it,
\* and then writes the text
OpenPending(w, name) == [w EXCEPT !.pendingFile[name] = <<EmptyText>>]
WritePending(w, name) == [w EXCEPT !.pendingFile[name] = << <<Seconds(w.now)>> >>]
OpenChatId(w, name) == [w EXCEPT !.chatIdFile[name] = <<EmptyText>>]
WriteChatId(w, name, chat_id) == [w EXCEPT !.chatIdFile[name] = << <<chat_id>> >>]

set_pending(w, name, chat_id) ==
    WriteChatId(OpenChatId(WritePending(OpenPending(w, name), name), name),
                name, chat_id)

\* mutant of clear_pending: the whole marker, chat id included, is removed
clear_pending_AndChat(w, name) ==
    [w EXCEPT !.pendingFile[name] = NoFile, !.chatIdFile[name] = NoFile]

clear_pending(w, name) ==
    IF w.pendingFile[name] # NoFile
    THEN [w EXCEPT !.pendingFile[name] = NoFile]
    ELSE w

\* mutant of Expired: the marker expires at 600 s already (>= for >)
Expired_AtTimeout(t, ts) == t - ts * TicksPerSec >= PENDING_TIMEOUT * TicksPerSec

\* (time.time() - ts) > 600, with time.time() in ticks
Expired(t, ts) == t - ts * TicksPerSec > PENDING_TIMEOUT * TicksPerSec

\* is_pending returns a value and may delete the marker: the value ...
is_pending_value(w, name) ==
    IF w.pendingFile[name] = NoFile THEN FALSE
    ELSE IF w.pendingFile[name][1] = EmptyText THEN FALSE    \* int("") raises: except
    ELSE IF Expired(w.now, w.pendingFile[name][1][1]) THEN FALSE
    ELSE TRUE

\* ... and the state it leaves
is_pending_state(w, name) ==
    IF /\ w.pendingFile[name] # NoFile
       /\ w.pendingFile[name][1] # EmptyText
       /\ Expired(w.now, w.pendingFile[name][1][1])
    THEN [w EXCEPT !.pendingFile[name] = NoFile]
    ELSE w

\* ------------------------------------------------------------ worker pipes
start_pipe_reader(w, name) ==
    IF name \in w.readers THEN w
    ELSE IF name \notin w.pipes THEN w
    ELSE [w EXCEPT !.readers = @ \cup {name}]

stop_pipe_reader(w, name) ==
    IF name \notin w.readers THEN w
    ELSE [w EXCEPT !.readers = @ \ {name}]

ensure_worker_pipe(w, name) ==
    start_pipe_reader([w EXCEPT !.pipes = @ \cup {name}], name)

cleanup_worker_pipe(w, name) ==
    [stop_pipe_reader(w, name) EXCEPT !.pipes = @ \ {name}]

cleanup_inbox(w, name) == [w EXCEPT !.inboxFiles = @ \ {name}]

\* ------------------------------------------------------------- the registry
\* mutant of scan_tmux_sessions: every session counts, whatever its prefix
scan_tmux_sessions_AnyPrefix(w) ==
    [n \in {s[2] : s \in w.tmux} |->
        [tmux |-> TmuxName(n), backend |-> normalize_backend(w.tmuxEnv[n]),
         mode |-> "tmux"]]

\* WorkerManager.scan_tmux_sessions: the sessions carrying the prefix, by worker name
scan_tmux_sessions(w) ==
    [n \in {s[2] : s \in {t \in w.tmux : t[1] = TMUX_PREFIX}} |->
        [tmux |-> TmuxName(n), backend |-> normalize_backend(w.tmuxEnv[n]),
         mode |-> "tmux"]]

ExecNames(w) == {n \in WorkerNames : w.backendFile[n] # NoFile}

\* the dict get_registered_sessions returns when it starts from `registered`
Registered(w, registered) ==
    [n \in DOMAIN registered \cup ExecNames(w) |->
        IF n \in DOMAIN registered THEN registered[n]
        ELSE [tmux |-> NoSession, backend |-> w.backendFile[n][1], mode |-> "exec"]]

\* list(registered.keys())[0]: the tmux sessions are inserted first, then the
\* exec directories; ord is the order in which the environment enumerates names
FirstOf(S, ord) ==
    ord[CHOOSE i \in 1..Len(ord) :
            /\ ord[i] \in S
            /\ \A j \in 1..(i - 1) : ord[j] \notin S]

FirstKey(w, reg, ord) ==
    IF \E n \in DOMAIN reg : reg[n].mode = "tmux"
    THEN FirstOf({n \in DOMAIN reg : reg[n].mode = "tmux"}, ord)
    ELSE FirstOf(DOMAIN reg, ord)

\* mutant of Reconcile: a focus pointer naming an absent worker is not cleared
Reconcile_KeepsStale(w, reg, ord) ==
    IF DOMAIN reg # {} /\ w.active = NoWorker THEN FirstKey(w, reg, ord) ELSE w.active

\* bridge.py:1432-1435, the focus pointer after reconciliation with reg
Reconcile(w, reg, ord) ==
    LET a1 == IF w.active # NoWorker /\ w.active \notin DOMAIN reg
              THEN NoWorker ELSE w.active
    IN IF DOMAIN reg # {} /\ a1 = NoWorker THEN FirstKey(w, reg, ord) ELSE a1

\* WorkerManager.get_registered_sessions(): the state it leaves ...
get_registered_sessions(w, ord) ==
    [w EXCEPT !.active = Reconcile(w, Registered(w, scan_tmux_sessions(w)), ord)]

\* ... and the dict it returns
Registry(w) == Registered(w, scan_tmux_sessions(w))

get_worker_backend(w, name, session) ==
    IF session.backend # "" THEN normalize_backend(session.backend)
    ELSE IF w.backendFile[name] # NoFile THEN normalize_backend(w.backendFile[name][1])
    ELSE DEFAULT_BACKEND

SessionTmux(name, session) ==
    IF session.tmux # NoSession THEN session.tmux ELSE TmuxName(name)

\* Backend.is_online
backend_is_online(w, b, tmux_name) ==
    IF is_exec(b) THEN TRUE
    ELSE tmux_exists(w, tmux_name) /\ is_process_running(w, tmux_name)

\* WorkerManager.is_online(name, session)
is_online(w, name, session) ==
    backend_is_online(w, get_backend(normalize_backend(session.backend)),
                      SessionTmux(name, session))

\* ------------------------------------------------------------------- sends
\* tmux_send_message under the session's lock (one sender): literal text, then Enter.
\* fault: the tmux call the environment lets fail ("text", "enter") or "none".
tmux_send_message(w, tmux_name, text, fault) ==
    IF fault = "text" THEN [w |-> w, r |-> FALSE]
    ELSE IF fault = "enter"
    THEN [w |-> SendKeys(w, tmux_name, <<"-l", text>>), r |-> FALSE]
    ELSE [w |-> SendKeys(SendKeys(w, tmux_name, <<"-l", text>>), tmux_name, <<"Enter">>),
          r |-> TRUE]

\* ClaudeBackend.send
claude_send(w, tmux_name, text, fault) ==
    IF ~tmux_exists(w, tmux_name) THEN [w |-> w, r |-> FALSE]
    ELSE tmux_send_message(w, tmux_name, text, fault)

\* CodexBackend.send (and the other exec backends): spawn the adapter, detached
exec_send(w, worker_name, text, fault) ==
    IF fault = "adapter" THEN [w |-> w, r |-> FALSE]      \* adapter script missing
    ELSE [w |-> [w EXCEPT !.out.spawns = Append(@, <<worker_name, text>>)], r |-> TRUE]

backend_send(w, b, worker_name, tmux_name, text, fault) ==
    LET res == IF is_exec(b) THEN exec_send(w, worker_name, text, fault)
               ELSE claude_send(w, tmux_name, text, fault)
    IN [w |-> Event([res.w EXCEPT !.out.sends = Append(@, <<worker_name, text, res.r>>)],
                    "send", worker_name),
        r |-> res.r]

\* mutant of send_with: a send the backend refused is tried once more
send_with_Retries(w, name, message, session, fault) ==
    LET b == get_backend(normalize_backend(session.backend))
        first == backend_send(w, b, name, SessionTmux(name, session), message, fault)
    IN IF first.r THEN first
       ELSE backend_send(first.w, b, name, SessionTmux(name, session), message, fault)

\* WorkerManager.send(name, message, chat_id, session) with a session given
send_with(w, name, message, session, fault) ==
    backend_send(w, get_backend(normalize_backend(session.backend)), name,
                 SessionTmux(name, session), message, fault)

\* WorkerManager.send(name, message): looks the session up itself
send(w, name, message, ord, fault) ==
    LET w1 == get_registered_sessions(w, ord)
        reg == Registry(w)
    IN IF name \notin DOMAIN reg THEN [w |-> w1, r |-> FALSE]
       ELSE send_with(w1, name, message, reg[name], fault)

\* ------------------------------------------------------------ tmux commands
export_hook_env(w, tmux_name, backend) ==
    [w EXCEPT !.tmuxEnv[tmux_name[2]] = normalize_backend(backend),
              !.out.envs = @ \cup {tmux_name}]

new_session(w, tmux_name) ==
    [w EXCEPT !.tmux = @ \cup {tmux_name}, !.out.created = @ \cup {tmux_name}]

kill_session(w, tmux_name) ==
    [w EXCEPT !.tmux = @ \ {tmux_name}, !.procRunning = @ \ {tmux_name},
              !.tmuxEnv[tmux_name[2]] = "",
              !.out.kills = @ \cup {tmux_name}]

\* the start command typed into a pane: the worker process comes up
type_start_cmd(w, tmux_name) ==
    [SendKeys(SendKeys(w, tmux_name, <<START_CMD>>), tmux_name, <<"Enter">>)
        EXCEPT !.procRunning = @ \cup {tmux_name}]

\* ----------------------------------------------------- WorkerManager.hire
NoErr == <<>>
AlreadyExists(name) == <<"Worker already exists", name>>
NotFound(name) == <<"Worker not found", name>>

\* the exec branch of hire up to the backend marker file
hire_exec_prepare(w, name, backend) ==
    LET w1 == save_last_active([w EXCEPT !.active = name], name)
        w2 == ensure_worker_pipe(w1, name)
    IN [w2 EXCEPT !.backendFile[name] = <<backend>>]

hire_exec(w, name, backend, chat_id, ord, fault) ==
    LET w3 == hire_exec_prepare(w, name, backend)
        w4 == IF chat_id # NoChat THEN set_pending(w3, name, chat_id) ELSE w3
        w5 == send(w4, name, WELCOME, ord, fault).w
    IN Return(w5, TRUE, NoErr)

hire_tmux(w, name, backend, chat_id, ord, fault) ==
    LET tmux_name == TmuxName(name) IN
    IF tmux_exists(w, tmux_name) THEN Return(w, FALSE, AlreadyExists(name))
    ELSE IF fault = "new-session"
    THEN Return(w, FALSE, <<"Could not start the worker workspace">>)
    ELSE
      LET w1 == export_hook_env(new_session(w, tmux_name), tmux_name, backend)
          w2 == type_start_cmd(w1, tmux_name)
          w3 == SendKeys(SendKeys(w2, tmux_name, <<"2">>), tmux_name, <<"Enter">>)
          w4 == send(w3, name, WELCOME, ord, fault).w
          w5 == save_last_active([w4 EXCEPT !.active = name], name)
          w6 == ensure_worker_pipe(w5, name)
      IN Return(w6, TRUE, NoErr)

hire(w, name, backend, chat_id, ord, fault) ==
    IF ~is_valid_backend(backend) THEN Return(w, FALSE, <<"Unknown backend">>)
    ELSE IF is_exec(get_backend(backend))
    THEN hire_exec(w, name, backend, chat_id, ord, fault)
    ELSE hire_tmux(w, name, backend, chat_id, ord, fault)

\* ------------------------------------------------------ WorkerManager.end
\* mutant of end_focus: focus is left on the ended worker
end_focus_Keeps(w, name, ord) == w

\* bridge.py:1601-1603 / 1616-1618
end_focus(w, name, ord) ==
    IF w.active = name
    THEN get_registered_sessions([w EXCEPT !.active = NoWorker], ord)
    ELSE w

end_exec(w, name, ord) ==
    LET w1 == [w EXCEPT !.backendFile[name] = NoFile,
                        !.sessionIdFiles = @ \ {name}]
        w2 == clear_pending(cleanup_worker_pipe(cleanup_inbox(w1, name), name), name)
    IN Return(end_focus(w2, name, ord), TRUE, NoErr)

end_tmux(w, name, session, ord) ==
    LET w1 == kill_session(w, session.tmux)
        w2 == cleanup_worker_pipe(cleanup_inbox(w1, name), name)
    IN Return(end_focus(w2, name, ord), TRUE, NoErr)

end(w, name, ord) ==
    LET w1 == get_registered_sessions(w, ord)
        registered == Registry(w)
    IN IF name \notin DOMAIN registered THEN Return(w1, FALSE, NotFound(name))
       ELSE IF is_exec(get_backend(get_worker_backend(w1, name, registered[name])))
       THEN end_exec(w1, name, ord)
       ELSE end_tmux(w1, name, registered[name], ord)

\* -------------------------------------------------- WorkerManager.restart
\* mutant of restart_exec: nothing is reset
restart_exec_KeepsState(w, name) == Return(w, TRUE, NoErr)

restart_exec(w, name) ==
    LET w1 == [w EXCEPT !.sessionIdFiles = @ \ {name}]
    IN Return(clear_pending(ensure_worker_pipe(w1, name), name), TRUE, NoErr)

\* mutant of restart_tmux: the process-name check is missing
restart_tmux_Unchecked(w, name, session, backend_name) ==
    LET tmux_name == session.tmux IN
    IF ~tmux_exists(w, tmux_name) THEN Return(w, FALSE, <<"Worker workspace is not running">>)
    ELSE Return(type_start_cmd(export_hook_env(w, tmux_name, backend_name), tmux_name),
                TRUE, NoErr)

restart_tmux(w, name, session, backend_name) ==
    LET tmux_name == session.tmux IN
    IF ~tmux_exists(w, tmux_name) THEN Return(w, FALSE, <<"Worker workspace is not running">>)
    ELSE IF is_claude_running(w, tmux_name) THEN Return(w, FALSE, <<"Worker is already running">>)
    ELSE Return(type_start_cmd(export_hook_env(w, tmux_name, backend_name), tmux_name),
                TRUE, NoErr)

restart(w, name, ord) ==
    LET w1 == get_registered_sessions(w, ord)
        registered == Registry(w)
    IN IF name \notin DOMAIN registered THEN Return(w1, FALSE, NotFound(name))
       ELSE LET backend_name == get_worker_backend(w1, name, registered[name])
            IN IF is_exec(get_backend(backend_name))
               THEN restart_exec(w1, name)
               ELSE restart_tmux(w1, name, registered[name], backend_name)

\* --------------------------------------------------------- CommandRouter
\* self.reply(chat_id, ...): a message to the operator about a worker
Reply(w, chat_id, what, name) == [w EXCEPT !.out.replies = Append(@, <<chat_id, what, name>>)]

\* mutant of route_message: the target is not asked whether it is online
route_message_Unchecked(w, session_name, text, chat_id, ord, fault) ==
    LET w1 == get_registered_sessions(w, ord)
        registered == Registry(w)
    IN IF session_name \notin DOMAIN registered
       THEN Reply(w1, chat_id, "Can't find", session_name)
       ELSE LET w2 == Event(Event(set_pending(w1, session_name, chat_id),
                                  "set_pending", session_name), "notifier", session_name)
                s == send_with(w2, session_name, text, registered[session_name], fault)
            IN IF ~s.r
               THEN Reply(Event(clear_pending(s.w, session_name), "clear_pending",
                                session_name), chat_id, "Could not send", session_name)
               ELSE s.w

\* route_message(session_name, text, chat_id, msg_id); the typing notifier it
\* starts only polls is_pending, and the reaction it may request changes nothing here
route_message(w, session_name, text, chat_id, ord, fault) ==
    LET w1 == get_registered_sessions(w, ord)
        registered == Registry(w)
    IN IF session_name \notin DOMAIN registered
       THEN Reply(w1, chat_id, "Can't find", session_name)
       ELSE IF ~is_online(w1, session_name, registered[session_name])
       THEN Reply(w1, chat_id, "is offline", session_name)
       ELSE LET w2 == Event(Event(set_pending(w1, session_name, chat_id),
                                  "set_pending", session_name), "notifier", session_name)
                s == send_with(w2, session_name, text, registered[session_name], fault)
            IN IF ~s.r
               THEN Reply(Event(clear_pending(s.w, session_name), "clear_pending",
                                session_name), chat_id, "Could not send", session_name)
               ELSE s.w

\* list(registered.keys()): the tmux sessions first, then the exec directories,
\* each group in the order ord the environment enumerates them in
Keys(reg, ord) ==
    SelectSeq(ord, LAMBDA n : n \in DOMAIN reg /\ reg[n].mode = "tmux")
    \o SelectSeq(ord, LAMBDA n : n \in DOMAIN reg /\ reg[n].mode # "tmux")

\* the loop of route_to_all over the names still to visit
RECURSIVE route_each(_, _, _, _, _, _, _)
RECURSIVE route_each_Aborts(_, _, _, _, _, _, _)

\* mutant of route_each: the loop is left at the first send that fails
route_each_Aborts(w, registered, names, text, chat_id, ord, faults) ==
    IF names = <<>> THEN [w |-> w, sent_to |-> <<>>]
    ELSE LET name == Head(names)
             online == is_online(w, name, registered[name])
             w1 == IF online
                   THEN route_message(w, name, text, chat_id, ord, faults[name])
                   ELSE w
             failed == online /\ ~w1.out.sends[Len(w1.out.sends)][3]
             rest == IF failed THEN [w |-> w1, sent_to |-> <<>>]
                     ELSE route_each_Aborts(w1, registered, Tail(names), text, chat_id,
                                            ord, faults)
         IN [w |-> rest.w,
             sent_to |-> IF online THEN <<name>> \o rest.sent_to ELSE rest.sent_to]

route_each(w, registered, names, text, chat_id, ord, faults) ==
    IF names = <<>> THEN [w |-> w, sent_to |-> <<>>]
    ELSE LET name == Head(names)
             online == is_online(w, name, registered[name])
             w1 == IF online
                   THEN route_message(w, name, text, chat_id, ord, faults[name])
                   ELSE w
             rest == route_each(w1, registered, Tail(names), text, chat_id, ord, faults)
         IN [w |-> rest.w,
             sent_to |-> IF online THEN <<name>> \o rest.sent_to ELSE rest.sent_to]

\* route_to_all(text, chat_id, msg_id); faults: the send fault each worker meets
route_to_all(w, text, chat_id, ord, faults) ==
    LET w1 == get_registered_sessions(w, ord)
        registered == Registry(w)
        sessions == Keys(registered, ord)
    IN IF sessions = <<>> THEN Reply(w1, chat_id, "No team members yet", NoWorker)
       ELSE LET done == route_each(w1, registered, sessions, text, chat_id, ord, faults)
            IN IF done.sent_to = <<>>
               THEN Reply(done.w, chat_id, "No one's online to share with", NoWorker)
               ELSE done.w

\* --------------------------------------------- CommandRouter.handle_message
\* An inbound text is "@<mention> <body>" when mention is not "", else "<body>".
Text(mention, body) == <<mention, body>>
Mention(text) == text[1]
TextBody(text) == text[2]
IsEmptyText(text) == text[1] = "" /\ text[2] = ""

\* str.lower() on the names that occur in messages
Lower(str) == CASE str = "Alice" -> "alice" [] str = "Bob" -> "bob" [] str = "ALL" -> "all"
                [] OTHER -> str

\* msg.get("reply_to_message"): None, or the message replied to; its text is
\* "<prefix>: <body>" when prefix is not "", else "<body>"
NoReplyTo == <<>>
ReplyTo(is_bot, prefix, body) == << [is_bot |-> is_bot, text |-> <<prefix, body>>] >>

save_last_chat_id(w, chat_id) == [w EXCEPT !.lastChatId = chat_id]

\* send_startup_message
send_startup_message(w, chat_id, ord) ==
    Reply(get_registered_sessions(w, ord), chat_id, "I'm online and ready", NoWorker)

\* parse_at_mention: ^@([a-zA-Z0-9-]+)\s+(.+)$ with the name lower-cased and registered
parse_at_mention(w, text) ==
    IF Mention(text) # "" /\ TextBody(text) # "" /\ Lower(Mention(text)) \in DOMAIN Registry(w)
    THEN [name |-> Lower(Mention(text)), message |-> Text("", TextBody(text))]
    ELSE [name |-> NoWorker, message |-> text]

\* parse_worker_prefix: ^\s*([a-zA-Z0-9-]+):\s*(.*)$
parse_worker_prefix(w, text) ==
    IF text[1] # "" /\ Lower(text[1]) \in DOMAIN Registry(w) THEN Lower(text[1]) ELSE NoWorker

\* parse_reply_target: (worker, reply_text)
parse_reply_target(w, reply_msg) ==
    IF reply_msg = NoReplyTo THEN [worker |-> NoWorker, text |-> Text("", "")]
    ELSE [worker |-> IF reply_msg[1].is_bot THEN parse_worker_prefix(w, reply_msg[1].text)
                     ELSE NoWorker,
          text |-> reply_msg[1].text]

\* format_reply_context
format_reply_context(reply_text, context_text) ==
    IF IsEmptyText(context_text) THEN <<"Manager reply", reply_text>>
    ELSE <<"Manager reply", reply_text, "Context", context_text>>

\* the send fault the worker n meets (none for no worker)
FaultOf(faults, n) == IF n \in DOMAIN faults THEN faults[n] ELSE "none"

\* route_to_active
route_to_active(w, text, chat_id, ord, fault) ==
    LET w1 == get_registered_sessions(w, ord)
    IN IF w1.active = NoWorker
       THEN IF DOMAIN Registry(w) # {}
            THEN Reply(w1, chat_id, "No one assigned", NoWorker)
            ELSE Reply(w1, chat_id, "No team members yet", NoWorker)
       ELSE route_message(w1, w1.active, text, chat_id, ord, fault)

\* mutant of route_text: a reply to a worker's message beats a leading @name
route_text_ReplyFirst(w, text, reply_to, chat_id, ord, faults) ==
    IF Lower(Mention(text)) = "all" /\ TextBody(text) # ""
    THEN route_to_all(w, Text("", TextBody(text)), chat_id, ord, faults)
    ELSE
      LET reply == parse_reply_target(w, reply_to)
          at == parse_at_mention(w, text)
          focus == get_registered_sessions(w, ord).active
      IN IF reply.worker # NoWorker
         THEN route_message(w, reply.worker, format_reply_context(text, reply.text),
                            chat_id, ord, FaultOf(faults, reply.worker))
         ELSE IF at.name # NoWorker
         THEN route_message(w, at.name,
                            IF IsEmptyText(reply.text) THEN at.message
                            ELSE format_reply_context(at.message, reply.text),
                            chat_id, ord, FaultOf(faults, at.name))
         ELSE route_to_active(w, IF IsEmptyText(reply.text) THEN text
                                 ELSE format_reply_context(text, reply.text),
                              chat_id, ord, FaultOf(faults, focus))

\* mutant of route_text: an @name message also moves the focus to the worker named
route_text_MentionFocuses(w, text, reply_to, chat_id, ord, faults) ==
    LET at == parse_at_mention(w, text)
        w1 == IF Lower(Mention(text)) # "all" /\ at.name # NoWorker
              THEN save_last_active([w EXCEPT !.active = at.name], at.name)
              ELSE w
    IN route_text_ReplyFirst(w1, text, NoReplyTo, chat_id, ord, faults)

\* handle_message from the "@all " test on: which route a text takes
route_text(w, text, reply_to, chat_id, ord, faults) ==
    IF Lower(Mention(text)) = "all" /\ TextBody(text) # ""
    THEN route_to_all(w, Text("", TextBody(text)), chat_id, ord, faults)
    ELSE
      LET reply_context == parse_reply_target(w, reply_to).text
          at == parse_at_mention(w, text)
          focus == get_registered_sessions(w, ord).active
      IN IF at.name # NoWorker
         THEN route_message(w, at.name,
                            IF IsEmptyText(reply_context) THEN at.message
                            ELSE format_reply_context(at.message, reply_context),
                            chat_id, ord, FaultOf(faults, at.name))
         ELSE IF reply_to # NoReplyTo /\ ~IsEmptyText(reply_context)
         THEN LET reply_target == parse_reply_target(w, reply_to).worker
                  routed_text == format_reply_context(text, reply_context)
              IN IF reply_target # NoWorker
                 THEN route_message(w, reply_target, routed_text, chat_id, ord,
                                    FaultOf(faults, reply_target))
                 ELSE route_to_active(w, routed_text, chat_id, ord, FaultOf(faults, focus))
         ELSE route_to_active(w, text, chat_id, ord, FaultOf(faults, focus))

\* handle_message for a text message that is not a command
handle_message(w, update, ord, faults) ==
    IF IsEmptyText(update.text) \/ update.chat = NoChat THEN w
    ELSE LET w1 == IF w.adminChat = NoChat
                   THEN save_last_chat_id([w EXCEPT !.adminChat = update.chat], update.chat)
                   ELSE w
             w2 == IF ~w1.startupNotified
                   THEN send_startup_message([w1 EXCEPT !.startupNotified = TRUE],
                                             update.chat, ord)
                   ELSE w1
         IN IF update.chat # w2.adminChat THEN w2
            ELSE route_text(save_last_chat_id(w2, update.chat), update.text,
                            update.reply_to, update.chat, ord, faults)

\* ------------------------------------- handle_command: the /<name> shortcut
\* the shortcut branch routing the argument to the worker focused before
shortcut_RoutesToFocus(w, worker_name, arg, chat_id, ord, fault) ==
    route_to_active(w, arg, chat_id, ord, fault)

\* handle_command after the fixed and the blocked commands: cmd[1:] names a
\* registered worker -> focus, persist, and route the argument if there is one;
\* out.answer is the handler's return value (False: not a command)
shortcut(w, worker_name, arg, chat_id, ord, fault) ==
    LET w1 == get_registered_sessions(w, ord)
        registered == Registry(w)
    IN IF worker_name \in DOMAIN registered
       THEN LET prev_focus == w1.active
                w2 == save_last_active([w1 EXCEPT !.active = worker_name], worker_name)
            IN IF arg = ""
               THEN [Reply(w2, chat_id, "Now talking to", worker_name)
                       EXCEPT !.out.answer = TRUE]
               ELSE [route_message(IF prev_focus # worker_name
                                   THEN Reply(w2, chat_id, "Now talking to", worker_name)
                                   ELSE w2,
                                   worker_name, arg, chat_id, ord, fault)
                       EXCEPT !.out.answer = TRUE]
       ELSE [w1 EXCEPT !.out.answer = FALSE]

\* ------------------------------------------------------- Handler.do_POST
\* an exception on its way up to the handler boundary
Raised == <<"exception">>

\* route_message when the subprocess call of the send raises (OSError: the
\* process cannot be started): the marker is written, the notifier runs, and
\* the exception leaves route_message before clear_pending or any reply
route_message_raising(w, session_name, text, chat_id, ord) ==
    LET w1 == get_registered_sessions(w, ord)
        registered == Registry(w)
    IN IF session_name \notin DOMAIN registered
       THEN Reply(w1, chat_id, "Can't find", session_name)
       ELSE IF ~is_online(w1, session_name, registered[session_name])
       THEN Reply(w1, chat_id, "is offline", session_name)
       ELSE [Event(Event(Event(set_pending(w1, session_name, chat_id),
                               "set_pending", session_name), "notifier", session_name),
                   "send", session_name)
               EXCEPT !.out.err = Raised, !.out.name = session_name]

route_to_active_raising(w, text, chat_id, ord) ==
    LET w1 == get_registered_sessions(w, ord)
    IN IF w1.active = NoWorker
       THEN IF DOMAIN Registry(w) # {}
            THEN Reply(w1, chat_id, "No one assigned", NoWorker)
            ELSE Reply(w1, chat_id, "No team members yet", NoWorker)
       ELSE route_message_raising(w1, w1.active, text, chat_id, ord)

\* handle_message for a plain text (no mention, no reply) whose send raises
handle_message_raising(w, update, ord) ==
    IF IsEmptyText(update.text) \/ update.chat = NoChat THEN w
    ELSE LET w1 == IF w.adminChat = NoChat
                   THEN save_last_chat_id([w EXCEPT !.adminChat = update.chat], update.chat)
                   ELSE w
             w2 == IF ~w1.startupNotified
                   THEN send_startup_message([w1 EXCEPT !.startupNotified = TRUE],
                                             update.chat, ord)
                   ELSE w1
         IN IF update.chat # w2.adminChat THEN w2
            ELSE route_to_active_raising(save_last_chat_id(w2, update.chat), update.text,
                                         update.chat, ord)

\* do_POST for a webhook update: json.loads and handle_message inside try, the
\* except branch prints the error and the traceback, then 200 "OK" either way.
\* raises: where the environment makes a call raise ("none", "update": the
\* update is not of the expected shape, "send": the send's subprocess call)
do_POST(w, update, ord, faults, raises) ==
    LET h == IF raises = "update" THEN [w EXCEPT !.out.err = Raised]
             ELSE IF raises = "send" THEN handle_message_raising(w, update, ord)
             ELSE handle_message(w, update, ord, faults)
    IN [(IF h.out.err = Raised THEN Event(h, "log", NoWorker) ELSE h)
          EXCEPT !.out.status = 200]

\* ------------------------------------------------------------ /hire <args>
\* Text whose characters the code inspects is a sequence of characters.
\* str.lower() on the upper-case letters the inputs use
LowerChar(c) ==
    CASE c = "A" -> "a" [] c = "B" -> "b" [] c = "L" -> "l" [] c = "O" -> "o"
      [] c = "C" -> "c" [] OTHER -> c

str_lower(s) == [i \in DOMAIN s |-> LowerChar(s[i])]

\* the character class [a-z0-9-] of re.sub(r'[^a-z0-9-]', '', name)
NameChars ==
    {"a", "b", "c", "d", "e", "f", "g", "h", "i", "j", "k", "l", "m", "n", "o", "p",
     "q", "r", "s", "t", "u", "v", "w", "x", "y", "z", "0", "1", "2", "3", "4", "5",
     "6", "7", "8", "9", "-"}

IsNameChar(c) == c \in NameChars

startswith(s, prefix) == Len(s) >= Len(prefix) /\ SubSeq(s, 1, Len(prefix)) = prefix

RESERVED_NAMES ==
    {<<"t", "e", "a", "m">>,
     <<"f", "o", "c", "u", "s">>,
     <<"p", "r", "o", "g", "r", "e", "s", "s">>,
     <<"l", "e", "a", "r", "n">>,
     <<"p", "a", "u", "s", "e">>,
     <<"r", "e", "l", "a", "u", "n", "c", "h">>,
     <<"s", "e", "t", "t", "i", "n", "g", "s">>,
     <<"h", "i", "r", "e">>,
     <<"e", "n", "d">>,
     <<"a", "l", "l">>,
     <<"s", "t", "a", "r", "t">>,
     <<"h", "e", "l", "p">>}

\* how the names of the model's workers and backends are spelled
Spell == [alice |-> <<"a", "l", "i", "c", "e">>,
          bob |-> <<"b", "o", "b">>,
          carol |-> <<"c", "a", "r", "o", "l">>]
BackendSpell == [claude |-> <<"c", "l", "a", "u", "d", "e">>,
                 codex |-> <<"c", "o", "d", "e", "x">>,
                 gemini |-> <<"g", "e", "m", "i", "n", "i">>,
                 opencode |-> <<"o", "p", "e", "n", "c", "o", "d", "e">>]

\* the worker a spelled name denotes, and the backend key a spelled word denotes
\* ("bogus" stands for every word that is not a key of BACKENDS)
NameOf(s) == IF \E n \in WorkerNames : Spell[n] = s
             THEN CHOOSE n \in WorkerNames : Spell[n] = s ELSE NoWorker
BackendOf(s) == IF \E b \in BACKENDS : BackendSpell[b] = s
                THEN CHOOSE b \in BACKENDS : BackendSpell[b] = s ELSE "bogus"

\* the while loop of parse_hire_args over the whitespace-separated parts
RECURSIVE parse_parts(_, _, _, _)
parse_parts(parts, i, backend, name_parts) ==
    IF i > Len(parts) THEN [backend |-> backend, name_parts |-> name_parts]
    ELSE IF parts[i] = <<"-", "-", "b", "a", "c", "k", "e", "n", "d">> /\ i + 1 <= Len(parts)
    THEN parse_parts(parts, i + 2, parts[i + 1], name_parts)
    ELSE IF parts[i] = <<"-", "-", "c", "o", "d", "e", "x">>
    THEN parse_parts(parts, i + 1, BackendSpell["codex"], name_parts)
    ELSE IF startswith(parts[i], <<"-", "-">>)
    THEN parse_parts(parts, i + 1, backend, name_parts)
    ELSE parse_parts(parts, i + 1, backend, Append(name_parts, parts[i]))

\* the prefix syntax: codex-alice is alice on the codex backend
strip_backend_prefix(name, backend) ==
    IF \E b \in BACKENDS : startswith(name, BackendSpell[b] \o <<"-">>)
    THEN LET b == CHOOSE b \in BACKENDS : startswith(name, BackendSpell[b] \o <<"-">>)
         IN [name |-> SubSeq(name, Len(BackendSpell[b]) + 2, Len(name)),
             backend |-> BackendSpell[b]]
    ELSE [name |-> name, backend |-> backend]

parse_hire_args(parts) ==
    LET p == parse_parts(parts, 1, BackendSpell[DEFAULT_BACKEND], <<>>)
    IN IF Len(p.name_parts) # 1 THEN [name |-> <<>>, backend |-> p.backend]
       ELSE strip_backend_prefix(p.name_parts[1], p.backend)

\* name.lower().strip() and the re.sub of cmd_hire
sanitize_name(parsed_name) == SelectSeq(str_lower(parsed_name), IsNameChar)

\* create_session(name, backend, chat_id) -> WorkerManager.hire.  The state keeps
\* the workers of WorkerNames; of a worker with any other name only the report
\* of its creation is kept (a fresh name: nothing of that name exists).
create_session(w, name, backend, chat_id, ord, fault) ==
    IF NameOf(name) # NoWorker
    THEN hire([w EXCEPT !.out.msg = name, !.out.name = NameOf(name)],
              NameOf(name), backend, chat_id, ord, fault)
    ELSE IF ~is_valid_backend(backend)
    THEN Return([w EXCEPT !.out.msg = name], FALSE, <<"Unknown backend">>)
    ELSE Return([w EXCEPT !.out.msg = name], TRUE, NoErr)

\* a variant of cmd_hire that leaves the reserved-word test out
cmd_hire_NoReserved(w, parts, chat_id, ord, fault) ==
    LET parsed == parse_hire_args(parts)
        name == sanitize_name(parsed.name)
    IN IF parts = <<>> \/ parsed.name = <<>> THEN Reply(w, chat_id, "Usage: /hire <name>", NoWorker)
       ELSE IF name = <<>> THEN Reply(w, chat_id, "Name must use letters", NoWorker)
       ELSE LET h == create_session(w, name, BackendOf(parsed.backend), chat_id, ord, fault)
            IN Reply(h, chat_id, IF h.out.ok THEN "is added and assigned" ELSE "Could not hire",
                     NameOf(name))

\* CommandRouter.cmd_hire; the spelled name handed to create_session is reported
cmd_hire(w, parts, chat_id, ord, fault) ==
    LET parsed == parse_hire_args(parts)
        name == sanitize_name(parsed.name)
    IN IF parts = <<>> \/ parsed.name = <<>> THEN Reply(w, chat_id, "Usage: /hire <name>", NoWorker)
       ELSE IF name = <<>> THEN Reply(w, chat_id, "Name must use letters", NoWorker)
       ELSE IF name \in RESERVED_NAMES THEN Reply(w, chat_id, "Cannot use reserved", NoWorker)
       ELSE LET h == create_session(w, name, BackendOf(parsed.backend), chat_id, ord, fault)
            IN Reply(h, chat_id, IF h.out.ok THEN "is added and assigned" ELSE "Could not hire",
                     NameOf(name))

\* ----------------------------------------------- Handler.handle_hook_response
\* the JSON object of a request body; data.get(key) is None for an absent key
Body(key, name, text) == (key :> name) @@ ("text" :> text)
Get(data, key, default) == IF key \in DOMAIN data THEN data[key] ELSE default

Status(w, code) == [w EXCEPT !.out.status = code, !.out.ok = (code = 200)]

\* send_response_to_telegram(session_name, text, int(chat_id))
send_response_to_telegram(w, name, text, chat_id) ==
    [w EXCEPT !.out.delivered = Append(@, <<name, text, chat_id>>)]

\* mutant of handle_hook_response: the reply is delivered, the marker is kept
handle_hook_response_KeepsPending(w, data) ==
    LET session_name == Get(data, "session", NoWorker)
        text == Get(data, "text", "")
    IN IF session_name = NoWorker \/ text = "" THEN Status(w, 400)
       ELSE IF w.chatIdFile[session_name] = NoFile THEN Status(w, 404)
       ELSE IF w.chatIdFile[session_name][1] = EmptyText THEN Status(w, 500)
       ELSE Status(send_response_to_telegram(w, session_name, text,
                                             w.chatIdFile[session_name][1][1]), 200)

handle_hook_response(w, data) ==
    LET session_name == Get(data, "session", NoWorker)
        text == Get(data, "text", "")
    IN IF session_name = NoWorker \/ text = "" THEN Status(w, 400)
       ELSE IF w.chatIdFile[session_name] = NoFile THEN Status(w, 404)
       ELSE IF w.chatIdFile[session_name][1] = EmptyText
       THEN Status(w, 500)                          \* int("") raises: except
       ELSE LET w1 == send_response_to_telegram(w, session_name, text,
                                                w.chatIdFile[session_name][1][1])
            IN Status(clear_pending(w1, session_name), 200)

\* ================================================================ actions
Orders(S) == {f \in [1..Cardinality(S) -> S] : \A i, j \in 1..Cardinality(S) : f[i] = f[j] => i = j}

\* the inputs of the registry specification
SpecNames == {"alice", "bob"}
SpecBackends == {"claude", "codex", "bogus"}
SpecChats == {NoChat, 7}
SpecFaults == {"none", "adapter", "new-session"}

Threads == 1..NumThreads
NoThread == 0          \* a threading.Lock that nobody holds
Idle == [pc |-> "idle", op |-> "", name |-> NoWorker, arg |-> 0, res |-> "none"]

\* no reader thread was ever started, no FIFO was written to, nothing forwarded:
\* thr: the reader threads in the order they were started, table: the thread
\* _pipe_reader_threads has for a name (0: no entry), fifo: the writers that
\* have a FIFO open and the lines not yet read, wrote: every line written so
\* far, fwd: the calls of _forward_pipe_message so far, stop: the last
\* stop_pipe_reader call (its statement, the thread it stops, and where that
\* thread was when it was called)
NoReaders == [thr |-> <<>>,
              table |-> [n \in WorkerNames |-> 0],
              fifo |-> [n \in WorkerNames |-> [writers |-> 0, buf |-> <<>>]],
              wrote |-> [n \in WorkerNames |-> <<>>],
              fwd |-> [n \in WorkerNames |-> <<>>],
              stop |-> [n \in WorkerNames |-> [pc |-> "idle", thread |-> 0, at |-> "none"]]]

\* the state right after construction: no sessions, no files, nobody in focus
W0 == [tmux |-> {}, tmuxEnv |-> [n \in WorkerNames |-> ""], procRunning |-> {},
       backendFile |-> [n \in WorkerNames |-> NoFile],
       pendingFile |-> [n \in WorkerNames |-> NoFile],
       chatIdFile |-> [n \in WorkerNames |-> NoFile],
       sessionIdFiles |-> {}, inboxFiles |-> {}, pipes |-> {}, readers |-> {},
       active |-> NoWorker, lastActive |-> "", adminChat |-> NoChat,
       startupNotified |-> FALSE, lastChatId |-> NoChat, now |-> 0, out |-> NoOut]

\* start in the state w, every handler thread idle and no send lock created yet
InitAt(w) ==
    /\ tmux = w.tmux
    /\ tmuxEnv = w.tmuxEnv
    /\ procRunning = w.procRunning
    /\ backendFile = w.backendFile
    /\ pendingFile = w.pendingFile
    /\ chatIdFile = w.chatIdFile
    /\ sessionIdFiles = w.sessionIdFiles
    /\ inboxFiles = w.inboxFiles
    /\ pipes = w.pipes
    /\ readers = w.readers
    /\ active = w.active
    /\ lastActive = w.lastActive
    /\ adminChat = w.adminChat
    /\ startupNotified = w.startupNotified
    /\ lastChatId = w.lastChatId
    /\ now = w.now
    /\ jumps = 0
    /\ out = NoOut
    /\ th = [t \in Threads |-> Idle]
    /\ sendLocks = [s \in {} |-> NoThread]
    /\ guard = NoThread
    /\ pane = [n \in WorkerNames |-> <<>>]
    /\ adapters = [n \in WorkerNames |-> 0]
    /\ rd = NoReaders

Init == InitAt(W0)

Hire(n, b, c, ord, fault) ==
    /\ n \in WorkerNames
    /\ Commit(hire([Begin(W, "hire", n) EXCEPT !.out.arg = b], n, b, c, ord, fault))

End(n, ord) ==
    /\ n \in WorkerNames
    /\ Commit(end(Begin(W, "end", n), n, ord))

Restart(n, ord) ==
    /\ n \in WorkerNames
    /\ Commit(restart(Begin(W, "restart", n), n, ord))

GetRegistered(ord) ==
    /\ ord \in Orders(WorkerNames) \cup Orders(SpecNames)
    /\ Commit([get_registered_sessions(Begin(W, "get_registered", NoWorker), ord)
                EXCEPT !.out.reg = DOMAIN Registry(W), !.out.ok = TRUE])

\* the worker process in a pane exits (crash, /exit typed by the operator)
ProcessExit(n) ==
    /\ TmuxName(n) \in procRunning
    /\ Commit([Begin(W, "process-exit", n) EXCEPT !.procRunning = @ \ {TmuxName(n)}])

\* a session is killed outside the bridge (tmux kill-session by hand)
ExternalKill(n) ==
    /\ TmuxName(n) \in tmux
    /\ Commit([kill_session(Begin(W, "external-kill", n), TmuxName(n)) EXCEPT !.out.kills = {}])

Next ==
    \/ \E n \in SpecNames, b \in SpecBackends, c \in SpecChats,
          ord \in Orders(SpecNames), fault \in SpecFaults : Hire(n, b, c, ord, fault)
    \/ \E n \in SpecNames, ord \in Orders(SpecNames) : End(n, ord)
    \/ \E n \in SpecNames, ord \in Orders(SpecNames) : Restart(n, ord)
    \/ \E ord \in Orders(SpecNames) : GetRegistered(ord)
    \/ \E n \in SpecNames : ProcessExit(n)
    \/ \E n \in SpecNames : ExternalKill(n)

Spec == Init /\ [][Next]_vars

\* ------------------------------------------------- the pending tracker alone
PendNames == {"alice", "bob"}
PendChats == {7, 8}

\* the clock: time passes in fine steps and in long jumps of just under the timeout
JumpTicks == (PENDING_TIMEOUT - 1) * TicksPerSec

Tick ==
    /\ now - jumps * JumpTicks < MaxFine * (jumps + 1)
    /\ now' = now + 1
    /\ out' = [NoOut EXCEPT !.op = "tick"]
    /\ UNCHANGED <<tmux, tmuxEnv, procRunning, backendFile, pendingFile, chatIdFile,
                   sessionIdFiles, inboxFiles, pipes, readers, active, lastActive, jumps,
                   adminChat, startupNotified, lastChatId, tvars>>

Jump ==
    /\ jumps < MaxJumps
    /\ now' = now + JumpTicks
    /\ jumps' = jumps + 1
    /\ out' = [NoOut EXCEPT !.op = "tick"]
    /\ UNCHANGED <<tmux, tmuxEnv, procRunning, backendFile, pendingFile, chatIdFile,
                   sessionIdFiles, inboxFiles, pipes, readers, active, lastActive,
                   adminChat, startupNotified, lastChatId, tvars>>

SetPending(n, c) ==
    /\ n \in WorkerNames
    /\ Commit(set_pending(Begin(W, "set_pending", n), n, c))

ClearPending(n) ==
    /\ n \in WorkerNames
    /\ Commit(clear_pending(Begin(W, "clear_pending", n), n))

IsPending(n) ==
    /\ n \in WorkerNames
    /\ Commit([is_pending_state(Begin(W, "is_pending", n), n)
                  EXCEPT !.out.answer = is_pending_value(W, n)])

NextPending ==
    \/ \E n \in PendNames, c \in PendChats : SetPending(n, c)
    \/ \E n \in PendNames : ClearPending(n)
    \/ \E n \in PendNames : IsPending(n)
    \/ Tick
    \/ Jump

SpecPending == Init /\ [][NextPending]_vars

\* ------------------------------------- tmux_send_message, thread by thread
\* Each request is served on a thread of its own (ThreadingHTTPServer); a thread
\* here runs one ClaudeBackend.send and steps through tmux_send_message one
\* statement at a time.  The keystrokes tmux accepts are appended to pane, each
\* tagged with the thread that sent it.
SendNames == {"alice", "bob"}

\* both workers hired as interactive ones, nothing sent yet
HiredAll(w, names, ord) ==
    LET h1 == hire(w, ord[1], DEFAULT_BACKEND, NoChat, ord, "none")
    IN IF Cardinality(names) = 1 THEN h1
       ELSE hire(h1, ord[2], DEFAULT_BACKEND, NoChat, ord, "none")

InitSend == \E ord \in Orders(SendNames) : InitAt(HiredAll(W0, SendNames, ord))

\* a thread's step: its own record changes, the handler's report is not used
Step(t, rec) ==
    /\ th' = [th EXCEPT ![t] = rec]
    /\ out' = [NoOut EXCEPT !.op = "thread"]
    /\ UNCHANGED <<tmux, tmuxEnv, procRunning, backendFile, pendingFile, chatIdFile,
                   sessionIdFiles, inboxFiles, pipes, readers, active, lastActive,
                   adminChat, startupNotified, lastChatId, now, jumps, rd>>

\* _get_tmux_send_lock: the table after the lookup creates the lock lazily
LockTable(locks, tmux_name) ==
    [s \in DOMAIN locks \cup {tmux_name} |->
        IF s \in DOMAIN locks THEN locks[s] ELSE NoThread]

\* mutant of Release: the lock stays held when the block is left
Release_Never(locks, tmux_name) == locks

\* leaving `with lock:` (by return or at its end) releases the lock
Release(locks, tmux_name) == [locks EXCEPT ![tmux_name] = NoThread]

\* `with lock:` can be entered only while nobody holds the lock
LockFree_Always(locks, tmux_name) == TRUE
\* mutant of LockFree: one lock for all sessions
LockFree_AllFree(locks, tmux_name) == \A s \in DOMAIN locks : locks[s] = NoThread
LockFree(locks, tmux_name) == locks[tmux_name] = NoThread

Keystroke(key, t) == [key |-> key, by |-> t]

\* ClaudeBackend.send: refuse if the session is gone, else tmux_send_message
SendCall(t, n) ==
    /\ th[t].pc = "idle"
    /\ n \in WorkerNames
    /\ Step(t, IF tmux_exists(W, TmuxName(n))
               THEN [th[t] EXCEPT !.pc = "get_lock", !.op = "send", !.name = n]
               ELSE [th[t] EXCEPT !.pc = "done", !.op = "send", !.name = n,
                                  !.res = "False"])
    /\ UNCHANGED <<sendLocks, guard, pane, adapters>>

\* _get_tmux_send_lock: `with _tmux_send_locks_guard:`
EnterGuard(t) ==
    /\ th[t].pc = "get_lock"
    /\ guard = NoThread
    /\ guard' = t
    /\ Step(t, [th[t] EXCEPT !.pc = "in_guard"])
    /\ UNCHANGED <<sendLocks, pane, adapters>>

\* ... create the session's lock if the table has none, return it, leave the guard
LookupLock(t) ==
    /\ th[t].pc = "in_guard"
    /\ sendLocks' = LockTable(sendLocks, TmuxName(th[t].name))
    /\ guard' = NoThread
    /\ Step(t, [th[t] EXCEPT !.pc = "acquire"])
    /\ UNCHANGED <<pane, adapters>>

\* tmux_send_message: `with lock:`
AcquireLock(t) ==
    /\ th[t].pc = "acquire"
    /\ LockFree(sendLocks, TmuxName(th[t].name))
    /\ sendLocks' = [sendLocks EXCEPT ![TmuxName(th[t].name)] = t]
    /\ Step(t, [th[t] EXCEPT !.pc = "text"])
    /\ UNCHANGED <<guard, pane, adapters>>

\* send-keys -l text; a non-zero return code leaves the block with False
SendText(t) ==
    /\ th[t].pc = "text"
    /\ IF tmux_exists(W, TmuxName(th[t].name))
       THEN /\ pane' = [pane EXCEPT ![th[t].name] = Append(@, Keystroke("text", t))]
            /\ Step(t, [th[t] EXCEPT !.pc = "sleep"])
            /\ UNCHANGED sendLocks
       ELSE /\ sendLocks' = Release(sendLocks, TmuxName(th[t].name))
            /\ Step(t, [th[t] EXCEPT !.pc = "done", !.res = "False"])
            /\ UNCHANGED pane
    /\ UNCHANGED <<guard, adapters>>

\* time.sleep(0.2)
Settle(t) ==
    /\ th[t].pc = "sleep"
    /\ Step(t, [th[t] EXCEPT !.pc = "enter"])
    /\ UNCHANGED <<sendLocks, guard, pane, adapters>>

\* send-keys Enter, return its outcome; leaving the block releases the lock
SendEnter(t) ==
    /\ th[t].pc = "enter"
    /\ IF tmux_exists(W, TmuxName(th[t].name))
       THEN /\ pane' = [pane EXCEPT ![th[t].name] = Append(@, Keystroke("Enter", t))]
            /\ Step(t, [th[t] EXCEPT !.pc = "done", !.res = "True"])
       ELSE /\ Step(t, [th[t] EXCEPT !.pc = "done", !.res = "False"])
            /\ UNCHANGED pane
    /\ sendLocks' = Release(sendLocks, TmuxName(th[t].name))
    /\ UNCHANGED <<guard, adapters>>

NextSend ==
    \/ \E t \in Threads, n \in SendNames : SendCall(t, n)
    \/ \E t \in Threads : EnterGuard(t)
    \/ \E t \in Threads : LookupLock(t)
    \/ \E t \in Threads : AcquireLock(t)
    \/ \E t \in Threads : SendText(t)
    \/ \E t \in Threads : Settle(t)
    \/ \E t \in Threads : SendEnter(t)
    \/ \E n \in SendNames : ExternalKill(n)

SpecSend == InitSend /\ [][NextSend]_vars

\* ------------------------------------------ routed sends and their replies
RouteNames == {"alice"}
RouteChats == {7}
RouteFaults == {"none", "text"}
RouteBodies == {Body(k, n, t) : k \in {"session", "worker"}, n \in {"alice", "bob"},
                                t \in {"hello", ""}}

RouteMessage(n, text, c, ord, fault) ==
    /\ n \in WorkerNames
    /\ Commit(route_message(Begin(W, "route_message", n), n, text, c, ord, fault))

\* POST /response with the body data; the report names the worker the body
\* names and the key it names it under
HookResponse(data) ==
    /\ "text" \in DOMAIN data
    /\ LET k == CHOOSE k \in DOMAIN data : k # "text"
       IN Commit(handle_hook_response(
                   [Begin(W, "response", data[k])
                      EXCEPT !.out.arg = k, !.out.text = data["text"]], data))

NextRoute ==
    \/ \E n \in RouteNames, c \in RouteChats, ord \in Orders(RouteNames) :
          Hire(n, DEFAULT_BACKEND, c, ord, "none")
    \/ \E n \in RouteNames, c \in RouteChats, ord \in Orders(RouteNames),
          fault \in RouteFaults : RouteMessage(n, "hi", c, ord, fault)
    \/ \E data \in RouteBodies : HookResponse(data)
    \/ \E n \in RouteNames : IsPending(n)
    \/ \E n \in RouteNames : ProcessExit(n)
    \/ Tick
    \/ Jump

SpecRoute == Init /\ [][NextRoute]_vars

\* ------------------------------------------------------------- broadcasts
\* the kind each worker is hired as
AllBackends == [alice |-> {"claude"}, bob |-> {"claude", "codex"}, carol |-> {"codex"}]
AllOrders == {<<"alice", "bob", "carol">>, <<"carol", "bob", "alice">>}
\* at most one worker's send meets a fault
AllFaults == {f \in [WorkerNames -> {"none", "text", "adapter"}] :
                Cardinality({n \in WorkerNames : f[n] # "none"}) <= 1}

RouteToAll(text, c, ord, faults) ==
    /\ ord \in Orders(WorkerNames)
    /\ Commit(route_to_all(Begin(W, "route_to_all", NoWorker), text, c, ord, faults))

NextAll ==
    \/ \E n \in WorkerNames : \E b \in AllBackends[n] :
          Hire(n, b, NoChat, <<"alice", "bob", "carol">>, "none")
    \/ \E ord \in AllOrders, faults \in AllFaults :
          RouteToAll("news", 7, ord, faults)
    \/ \E n \in WorkerNames : ProcessExit(n)

SpecAll == Init /\ [][NextAll]_vars

\* ------------------------------- exec workers and their replies, thread by thread
\* hire and route_message for an exec worker, and the handling of the POST
\* /response of its adapter, each on a thread of its own and one statement at a
\* time.  An adapter subprocess runs from the moment Popen starts it; it posts
\* its reply once, at any later time.
MaxAdapters == 2       \* adapters started and not yet heard from, per worker
ReplyNames == {"bob"}
ReplyChats == {7}

\* a thread's step that also changes the files: the state becomes w
StepW(t, rec, w) ==
    /\ th' = [th EXCEPT ![t] = rec]
    /\ CommitW([w EXCEPT !.out = [NoOut EXCEPT !.op = "thread"]])
    /\ UNCHANGED <<jumps, sendLocks, guard, pane, rd>>

\* adapters the worker may still hear from once the running handlers have spawned
Outstanding(n) ==
    adapters[n] + Cardinality({t \in Threads : th[t].name = n /\ th[t].op \in {"hire", "route"}
                                                 /\ th[t].pc # "idle"})

\* hire(name, backend, chat_id), exec branch, up to set_pending; the operator
\* hires a name that is not in the team and not being hired
HireExecCall(t, n, b, c, ord) ==
    /\ th[t].pc = "idle"
    /\ is_valid_backend(b) /\ is_exec(get_backend(b))
    /\ n \notin DOMAIN Registry(W)
    /\ \A u \in Threads : ~(th[u].op = "hire" /\ th[u].name = n /\ th[u].pc # "idle")
    /\ Outstanding(n) < MaxAdapters
    /\ StepW(t, [Idle EXCEPT !.pc = "open_pending", !.op = "hire", !.name = n, !.arg = c],
             hire_exec_prepare(W, n, b))
    /\ UNCHANGED adapters

\* route_message(name, text, chat_id) up to set_pending
RouteCall(t, n, c, ord) ==
    /\ th[t].pc = "idle"
    /\ Outstanding(n) < MaxAdapters
    /\ LET registered == Registry(W)
           ready == n \in DOMAIN registered /\ is_online(W, n, registered[n])
       IN StepW(t, IF ready
                   THEN [Idle EXCEPT !.pc = "open_pending", !.op = "route", !.name = n,
                                     !.arg = c]
                   ELSE [Idle EXCEPT !.op = "route", !.name = n, !.arg = c,
                                     !.res = "refused"],
                get_registered_sessions(W, ord))
    /\ UNCHANGED adapters

\* set_pending: pending.write_text(...) opens the file ...
OpenPendingStep(t) ==
    /\ th[t].pc = "open_pending"
    /\ StepW(t, [th[t] EXCEPT !.pc = "write_pending"], OpenPending(W, th[t].name))
    /\ UNCHANGED adapters

\* ... and writes the timestamp
WritePendingStep(t) ==
    /\ th[t].pc = "write_pending"
    /\ StepW(t, [th[t] EXCEPT !.pc = "open_chat_id"], WritePending(W, th[t].name))
    /\ UNCHANGED adapters

\* set_pending: chat_id_file.write_text(...) opens the file ...
OpenChatIdStep(t) ==
    /\ th[t].pc = "open_chat_id"
    /\ StepW(t, [th[t] EXCEPT !.pc = "write_chat_id"], OpenChatId(W, th[t].name))
    /\ UNCHANGED adapters

\* ... and writes the chat id
WriteChatIdStep(t) ==
    /\ th[t].pc = "write_chat_id"
    /\ StepW(t, [th[t] EXCEPT !.pc = "spawn"], WriteChatId(W, th[t].name, th[t].arg))
    /\ UNCHANGED adapters

\* the backend's send: subprocess.Popen starts the adapter
SpawnStep(t) ==
    /\ th[t].pc = "spawn"
    /\ adapters' = [adapters EXCEPT ![th[t].name] = @ + 1]
    /\ StepW(t, [th[t] EXCEPT !.pc = "spawned"], W)

\* Popen returns, and the handler with it
SpawnReturn(t) ==
    /\ th[t].pc = "spawned"
    /\ StepW(t, [th[t] EXCEPT !.pc = "idle", !.res = "sent"], W)
    /\ UNCHANGED adapters

\* an adapter posts {"session": n, "text": ...}: handle_hook_response starts
ResponseCall(t, n) ==
    /\ th[t].pc = "idle"
    /\ adapters[n] > 0
    /\ adapters' = [adapters EXCEPT ![n] = @ - 1]
    /\ StepW(t, [Idle EXCEPT !.pc = "exists", !.op = "response", !.name = n], W)

\* if not chat_id_file.exists(): 404
ResponseExists(t) ==
    /\ th[t].pc = "exists"
    /\ StepW(t, IF chatIdFile[th[t].name] = NoFile
                THEN [th[t] EXCEPT !.pc = "idle", !.res = "404"]
                ELSE [th[t] EXCEPT !.pc = "read"], W)
    /\ UNCHANGED adapters

\* chat_id = chat_id_file.read_text().strip(); int(chat_id) raises on "": 500
ResponseRead(t) ==
    /\ th[t].pc = "read"
    /\ StepW(t, IF chatIdFile[th[t].name] = NoFile \/ chatIdFile[th[t].name][1] = EmptyText
                THEN [th[t] EXCEPT !.pc = "idle", !.res = "500"]
                ELSE [th[t] EXCEPT !.pc = "deliver", !.arg = chatIdFile[th[t].name][1][1]],
             W)
    /\ UNCHANGED adapters

\* send_response_to_telegram, clear_pending, 200
ResponseDeliver(t) ==
    /\ th[t].pc = "deliver"
    /\ StepW(t, [th[t] EXCEPT !.pc = "idle", !.res = "200"], clear_pending(W, th[t].name))
    /\ UNCHANGED adapters

NextReply ==
    \/ \E t \in Threads, n \in ReplyNames, c \in ReplyChats, ord \in Orders(ReplyNames) :
          HireExecCall(t, n, "codex", c, ord)
    \/ \E t \in Threads, n \in ReplyNames, c \in ReplyChats, ord \in Orders(ReplyNames) :
          RouteCall(t, n, c, ord)
    \/ \E t \in Threads : OpenPendingStep(t)
    \/ \E t \in Threads : WritePendingStep(t)
    \/ \E t \in Threads : OpenChatIdStep(t)
    \/ \E t \in Threads : WriteChatIdStep(t)
    \/ \E t \in Threads : SpawnStep(t)
    \/ \E t \in Threads : SpawnReturn(t)
    \/ \E t \in Threads, n \in ReplyNames : ResponseCall(t, n)
    \/ \E t \in Threads : ResponseExists(t)
    \/ \E t \in Threads : ResponseRead(t)
    \/ \E t \in Threads : ResponseDeliver(t)

SpecReply == Init /\ [][NextReply]_vars

\* --------------------------------------------- inbound messages and sends
MsgNames == {"alice", "bob"}
MsgBackends == {"claude", "codex"}
MsgChats == {7}
MsgFaults == {"none", "text", "adapter"}

\* WorkerManager.send(name, message) called on its own
Send(n, text, ord, fault) ==
    /\ n \in WorkerNames
    /\ LET s == send(Begin(W, "send", n), n, text, ord, fault)
       IN Commit([s.w EXCEPT !.out.ok = s.r])

NextMsg ==
    \/ \E n \in MsgNames, b \in MsgBackends, c \in MsgChats, ord \in Orders(MsgNames) :
          Hire(n, b, c, ord, "none")
    \/ \E n \in MsgNames, ord \in Orders(MsgNames), fault \in MsgFaults :
          Send(n, "hi", ord, fault)
    \/ \E n \in MsgNames, c \in MsgChats, ord \in Orders(MsgNames), fault \in MsgFaults :
          RouteMessage(n, "hi", c, ord, fault)
    \/ \E n \in MsgNames : ProcessExit(n)
    \/ \E n \in MsgNames : ExternalKill(n)

SpecMsg == Init /\ [][NextMsg]_vars

\* ------------------------------------------------- inbound text messages
InboxTexts == {Text("", "hi"), Text("Bob", "hi"), Text("carol", "hi"), Text("ALL", "hi")}
\* the kind each worker is hired as
InboxBackends == [alice |-> {"claude"}, bob |-> {"codex"}]
InboxReplies == {NoReplyTo} \cup {ReplyTo(TRUE, "alice", "done")}
                \cup {ReplyTo(TRUE, "", "note")} \cup {ReplyTo(FALSE, "bob", "seen")}
                \cup {ReplyTo(TRUE, "", "")}
InboxUpdates == [chat : MsgChats, text : InboxTexts, reply_to : InboxReplies]
InboxFaults == {[n \in WorkerNames |-> f] : f \in {"none", "text"}}

\* POST / with a text message in the update
HandleMessage(update, ord, faults) ==
    /\ update.chat \in MsgChats
    /\ Commit(handle_message([Begin(W, "message", NoWorker) EXCEPT !.out.msg = update],
                             update, ord, faults))

NextInbox ==
    \/ \E n \in MsgNames : \E b \in InboxBackends[n] :
          Hire(n, b, NoChat, <<"alice", "bob">>, "none")
    \/ \E update \in InboxUpdates, ord \in Orders(MsgNames), faults \in InboxFaults :
          HandleMessage(update, ord, faults)
    \/ \E n \in MsgNames : ProcessExit(n)
    \/ \E n \in MsgNames : ExternalKill(n)

SpecInbox == Init /\ [][NextInbox]_vars

\* ------------------------------------------------ the restart specification
\* Workers of both kinds are hired, exec adapters save their continuation id,
\* processes exit, sessions are killed by hand, and workers are restarted.
RestartNames == {"alice", "bob"}
RestartBackends == {"claude", "codex"}
RestartChats == {NoChat, 7}

\* codex-tmux-adapter.py: after a run the adapter saves the session id to resume
AdapterSavesSession(n) ==
    /\ backendFile[n] # NoFile
    /\ n \notin sessionIdFiles
    /\ Commit([Begin(W, "adapter-save", n) EXCEPT !.sessionIdFiles = @ \cup {n}])

NextRestart ==
    \/ \E n \in RestartNames, b \in RestartBackends, c \in RestartChats :
          Hire(n, b, c, <<"alice", "bob">>, "none")
    \/ \E n \in RestartNames, ord \in Orders(RestartNames) : Restart(n, ord)
    \/ \E n \in RestartNames : AdapterSavesSession(n)
    \/ \E n \in RestartNames : ProcessExit(n)
    \/ \E n \in RestartNames : ExternalKill(n)

SpecRestart == Init /\ [][NextRestart]_vars

\* --------------------------------------------------- the bridge restarting
\* main(): the process starts with nothing in memory (state, admin, reader
\* threads), discovers the sessions, restores the persisted focus if that
\* worker is in the registry, restores the admin from the last chat id and
\* announces itself there.
main(w, ord) ==
    LET w0 == [w EXCEPT !.active = NoWorker, !.adminChat = NoChat,
                        !.startupNotified = FALSE, !.readers = {}]
        w1 == get_registered_sessions(w0, ord)
        registered == Registry(w0)
        last_active == load_last_active(w1)
        w2 == IF last_active # "" /\ last_active \in DOMAIN registered
              THEN [w1 EXCEPT !.active = last_active] ELSE w1
    IN IF w2.lastChatId = NoChat THEN Return(w2, TRUE, NoErr)
       ELSE Return(Reply([w2 EXCEPT !.adminChat = w2.lastChatId,
                                    !.startupNotified = TRUE],
                         w2.lastChatId, "I'm online and ready", w2.active),
                   TRUE, NoErr)

\* Sessions are listed by tmux in name order, so every lookup enumerates the
\* workers in the same order.
BootNames == {"alice", "bob"}
BootOrder == <<"alice", "bob">>
BootChats == {NoChat, 7}

\* the bridge process is stopped and started again
BridgeRestart(ord) ==
    /\ ord \in Orders(WorkerNames) \cup Orders(BootNames)
    /\ Commit([main(Begin(W, "main", NoWorker), ord) EXCEPT !.out.reg = DOMAIN Registry(W)])

\* a session with the workers' prefix is created outside the bridge (by hand,
\* by a script that restores the sessions after the tmux server went down)
ExternalCreate(n) ==
    /\ TmuxName(n) \notin tmux
    /\ Commit([new_session(Begin(W, "external-create", n), TmuxName(n))
                 EXCEPT !.out.created = {}])

NextBoot ==
    \/ \E n \in BootNames, c \in BootChats : Hire(n, DEFAULT_BACKEND, c, BootOrder, "none")
    \/ \E n \in BootNames : End(n, BootOrder)
    \/ GetRegistered(BootOrder)
    \/ \E n \in BootNames : ExternalKill(n)
    \/ \E n \in BootNames : ExternalCreate(n)
    \/ BridgeRestart(BootOrder)

SpecBoot == Init /\ [][NextBoot]_vars

\* ------------------------------------------------- the /hire specification
\* /hire commands with well-formed and ill-formed arguments, workers ended and
\* sessions killed in between.
HireRaws ==
    {<<>>,
     <<<<"b", "o", "b">>>>, <<<<"B", "o", "b">>>>, <<<<"b", "!", "o", "b">>>>,
     <<<<"A", "L", "L">>>>, <<<<"a", "!", "l", "l">>>>, <<<<"!", "!">>>>,
     <<<<"c", "o", "d", "e", "x", "-", "b", "o", "b">>>>, <<<<"c", "o", "d", "e", "x", "-", "a", "l", "l">>>>, <<<<"c", "o", "d", "e", "x", "-">>>>,
     <<<<"a", "l", "i", "c", "e">>, <<"-", "-", "c", "o", "d", "e", "x">>>>, <<<<"-", "-", "b", "a", "c", "k", "e", "n", "d">>, <<"c", "o", "d", "e", "x">>, <<"a", "l", "i", "c", "e">>>>, <<<<"-", "-", "b", "a", "c", "k", "e", "n", "d">>, <<"b", "o", "g", "u", "s">>, <<"b", "o", "b">>>>,
     <<<<"a", "l", "i", "c", "e">>, <<"b", "o", "b">>>>, <<<<"-", "-", "c", "o", "d", "e", "x">>>>, <<<<"C", "o", "d", "e", "x", "-", "b", "o", "b">>>>}
HireChats == {7}
HireOrder == <<"alice", "bob">>

CmdHire(parts, c) ==
    /\ parts \in HireRaws
    /\ Commit(cmd_hire([Begin(W, "cmd_hire", NoWorker) EXCEPT !.out.arg = parts],
                       parts, c, HireOrder, "none"))

NextHire ==
    \/ \E parts \in HireRaws, c \in HireChats : CmdHire(parts, c)
    \/ \E n \in {"alice", "bob"} : End(n, HireOrder)
    \/ \E n \in {"alice", "bob"} : ExternalKill(n)

SpecHire == Init /\ [][NextHire]_vars

\* ------------------------------------ requests an exec worker still owes
\* Exec workers: every accepted send starts an adapter process of its own
\* (subprocess.Popen, detached), and each adapter posts its /response when it
\* is done.  adapters[n] counts the requests n has not answered yet.  The clock
\* stands still, so every one of them is younger than the timeout.
OweNames == {"alice", "bob"}
OweChats == {7, 8}
OweFaults == {"none", "adapter"}

\* the adapters the handler started for n
Spawned(o, n) == Cardinality({i \in 1..Len(o.spawns) : o.spawns[i][1] = n})

CommitSpawns(w) ==
    /\ CommitW(w)
    /\ adapters' = [n \in WorkerNames |-> adapters[n] + Spawned(w.out, n)]
    /\ UNCHANGED <<jumps, th, sendLocks, guard, pane, rd>>

HireExec(n, c, ord) ==
    /\ n \notin DOMAIN Registry(W)
    /\ adapters[n] < MaxAdapters
    /\ CommitSpawns(hire([Begin(W, "hire", n) EXCEPT !.out.arg = "codex"],
                         n, "codex", c, ord, "none"))

RouteExec(n, c, ord, fault) ==
    /\ adapters[n] < MaxAdapters
    /\ CommitSpawns(route_message(Begin(W, "route_message", n), n, "hi", c, ord, fault))

\* an adapter of n is done and posts {"session": n, "text": "hello"}
AdapterResponds(n) ==
    /\ adapters[n] > 0
    /\ adapters' = [adapters EXCEPT ![n] = @ - 1]
    /\ CommitW(handle_hook_response([Begin(W, "response", n) EXCEPT !.out.arg = "session",
                                                                  !.out.text = "hello"],
                                    Body("session", n, "hello")))
    /\ UNCHANGED <<jumps, th, sendLocks, guard, pane, rd>>

NextOwe ==
    \/ \E n \in OweNames, c \in OweChats, ord \in Orders(OweNames) : HireExec(n, c, ord)
    \/ \E n \in OweNames, c \in OweChats, ord \in Orders(OweNames), fault \in OweFaults :
          RouteExec(n, c, ord, fault)
    \/ \E n \in OweNames : AdapterResponds(n)

SpecOwe == Init /\ [][NextOwe]_vars

\* -------------------------------------- the readers across a restart
\* Workers of both kinds are hired, ended and restarted, and the bridge process
\* itself is stopped and started again.
ReaderBackends == {"claude", "codex"}

NextReaders ==
    \/ \E n \in BootNames, b \in ReaderBackends : Hire(n, b, NoChat, BootOrder, "none")
    \/ \E n \in BootNames : End(n, BootOrder)
    \/ \E n \in BootNames : Restart(n, BootOrder)
    \/ \E n \in BootNames : ExternalKill(n)
    \/ BridgeRestart(BootOrder)

SpecReaders == Init /\ [][NextReaders]_vars

\* ------------------------------ the focus pointer, thread by thread
\* Request handlers (ThreadingHTTPServer) and pipe readers run on threads of
\* their own and all go through get_registered_sessions; a thread here runs one
\* lookup, or one /<name> shortcut (lookup, then focus and persist), statement
\* by statement.  th[t].arg holds the thread's `registered`, keys in order.
FocusNames == {"alice", "bob", "carol"}
\* tmux list-sessions and iterdir enumerate in one order here
FocusOrder == <<"alice", "bob", "carol">>

\* three interactive workers hired, carol last and in focus
InitFocus ==
    InitAt(hire(hire(hire(W0, "alice", DEFAULT_BACKEND, NoChat, FocusOrder, "none"),
                     "bob", DEFAULT_BACKEND, NoChat, FocusOrder, "none"),
                "carol", DEFAULT_BACKEND, NoChat, FocusOrder, "none"))

\* registered.keys() as the scan enumerated them
RegisteredKeys(w, ord) == SelectSeq(ord, LAMBDA n : n \in DOMAIN Registry(w))
InKeys(keys, n) == \E i \in 1..Len(keys) : keys[i] = n

\* registered = self.scan_tmux_sessions() plus the exec workers
LookupCall(t, op, n, ord) ==
    /\ th[t].pc = "idle"
    /\ op \in {"lookup", "focus"}
    /\ op = "lookup" => n = NoWorker
    /\ Step(t, [th[t] EXCEPT !.pc = "check_stale", !.op = op, !.name = n,
                             !.arg = RegisteredKeys(W, ord)])
    /\ UNCHANGED <<sendLocks, guard, pane, adapters>>

\* if state["active"] and state["active"] not in registered:
CheckStale(t) ==
    /\ th[t].pc = "check_stale"
    /\ Step(t, [th[t] EXCEPT !.pc = IF active # NoWorker /\ ~InKeys(th[t].arg, active)
                                    THEN "clear" ELSE "check_empty"])
    /\ UNCHANGED <<sendLocks, guard, pane, adapters>>

\*     state["active"] = None
ClearFocus(t) ==
    /\ th[t].pc = "clear"
    /\ StepW(t, [th[t] EXCEPT !.pc = "check_empty"], [W EXCEPT !.active = NoWorker])
    /\ UNCHANGED adapters

\* if registered and not state["active"]:
CheckEmpty(t) ==
    /\ th[t].pc = "check_empty"
    /\ Step(t, [th[t] EXCEPT !.pc = IF th[t].arg # <<>> /\ active = NoWorker THEN "pick"
                                    ELSE IF th[t].op = "focus" /\ InKeys(th[t].arg, th[t].name)
                                    THEN "set" ELSE "done"])
    /\ UNCHANGED <<sendLocks, guard, pane, adapters>>

\*     state["active"] = list(registered.keys())[0]
PickFocus(t) ==
    /\ th[t].pc = "pick"
    /\ StepW(t, [th[t] EXCEPT !.pc = IF th[t].op = "focus" /\ InKeys(th[t].arg, th[t].name)
                                     THEN "set" ELSE "done"],
             [W EXCEPT !.active = th[t].arg[1]])
    /\ UNCHANGED adapters

\* handle_command: state["active"] = worker_name; save_last_active(worker_name)
SetFocus(t) ==
    /\ th[t].pc = "set"
    /\ StepW(t, [th[t] EXCEPT !.pc = "done", !.res = "True"],
             save_last_active([W EXCEPT !.active = th[t].name], th[t].name))
    /\ UNCHANGED adapters

\* the handler returns; the thread serves another request
ThreadReturns(t) ==
    /\ th[t].pc = "done"
    /\ Step(t, Idle)
    /\ UNCHANGED <<sendLocks, guard, pane, adapters>>

NextFocus ==
    \/ \E t \in Threads : LookupCall(t, "lookup", NoWorker, FocusOrder)
    \/ \E t \in Threads, n \in FocusNames : LookupCall(t, "focus", n, FocusOrder)
    \/ \E t \in Threads : CheckStale(t)
    \/ \E t \in Threads : ClearFocus(t)
    \/ \E t \in Threads : CheckEmpty(t)
    \/ \E t \in Threads : PickFocus(t)
    \/ \E t \in Threads : SetFocus(t)
    \/ \E t \in Threads : ThreadReturns(t)
    \/ \E n \in FocusNames : ExternalKill(n)

SpecFocus == InitFocus /\ [][NextFocus]_vars

\* ------------------------------------------ the pipe relay, thread by thread
\* A reader thread runs pipe_reader_loop statement by statement; other workers
\* (the writers) open a worker's FIFO, write lines and close it.  A line is the
\* sequence of its characters without the newline that ends it.
PipeNames == {"bob"}
PipeOrder == <<"bob">>
MaxReaders == 2        \* reader threads started in one run
MaxLines == 3          \* lines written to one FIFO in one run
PipeLines == {<<"h", "i">>, <<" ", "y", "o">>, <<>>, <<" ">>}
PipeFaults == {"none", "adapter"}

\* str.strip(): leading and trailing whitespace removed
Whitespace == {" ", "\t"}
RECURSIVE lstrip(_)
lstrip(s) == IF s # <<>> /\ Head(s) \in Whitespace THEN lstrip(Tail(s)) ELSE s
RECURSIVE rstrip(_)
rstrip(s) == IF s # <<>> /\ s[Len(s)] \in Whitespace
             THEN rstrip(SubSeq(s, 1, Len(s) - 1)) ELSE s
strip(s) == rstrip(lstrip(s))

\* mutant of forwardable: every line is forwarded
forwardable_Always(message) == TRUE
\* `if message:`
forwardable(message) == message # <<>>

\* a thread as threading.Thread(target=pipe_reader_loop, args=(name, stop_event))
\* starts it: at the top of the loop, its event not set
NewReader(name) == [name |-> name, pc |-> "loop", stop |-> FALSE, line |-> <<>>]

ReaderIds == 1..Len(rd.thr)
\* the threads that have n's FIFO open for reading, or are blocked opening it
HasReaderOpen(r, n) ==
    \E i \in 1..Len(r.thr) :
        r.thr[i].name = n /\ r.thr[i].pc \in {"blocked", "read", "readline", "forward"}

\* a writer's open lets every reader blocked in open() go on
Unblocked(thr, n) ==
    [i \in 1..Len(thr) |-> IF thr[i].name = n /\ thr[i].pc = "blocked"
                           THEN [thr[i] EXCEPT !.pc = "read"] ELSE thr[i]]

\* a step that changes the world to w and the readers to r
PipeCommit(w, r) ==
    /\ CommitW(w)
    /\ rd' = r
    /\ UNCHANGED <<jumps, th, sendLocks, guard, pane, adapters>>

ReaderReport(i) == [Begin(W, "reader", rd.thr[i].name) EXCEPT !.out.status = i]

\* while not stop_event.is_set(): ... if stop_event.is_set(): break
ReaderLoop(i) ==
    /\ i \in ReaderIds /\ rd.thr[i].pc = "loop"
    /\ PipeCommit(ReaderReport(i),
                  [rd EXCEPT !.thr[i].pc = IF rd.thr[i].stop THEN "cleanup" ELSE "open"])

\* open(str(pipe_path), 'r'): FileNotFoundError ends the loop, else the call
\* blocks until a writer has the FIFO open
ReaderOpen(i) ==
    /\ i \in ReaderIds /\ rd.thr[i].pc = "open"
    /\ PipeCommit(ReaderReport(i),
                  [rd EXCEPT !.thr[i].pc =
                      IF rd.thr[i].name \notin pipes THEN "cleanup"
                      ELSE IF rd.fifo[rd.thr[i].name].writers > 0 THEN "read"
                      ELSE "blocked"])

\* inner `while not stop_event.is_set():` (leaving it closes the pipe)
ReaderCheck(i) ==
    /\ i \in ReaderIds /\ rd.thr[i].pc = "read"
    /\ PipeCommit(ReaderReport(i),
                  [rd EXCEPT !.thr[i].pc = IF rd.thr[i].stop THEN "loop" ELSE "readline"])

\* line = pipe.readline(): a line, or EOF once every writer has closed;
\* message = line.strip(); if message: forward
ReaderReadline(i) ==
    /\ i \in ReaderIds /\ rd.thr[i].pc = "readline"
    /\ LET n == rd.thr[i].name
           f == rd.fifo[n]
       IN /\ f.buf # <<>> \/ f.writers = 0
          /\ PipeCommit(ReaderReport(i),
                IF f.buf = <<>> THEN [rd EXCEPT !.thr[i].pc = "loop"]
                ELSE LET message == strip(Head(f.buf))
                     IN [rd EXCEPT !.fifo[n].buf = Tail(f.buf),
                                   !.thr[i].line = message,
                                   !.thr[i].pc = IF forwardable(message) THEN "forward"
                                                 ELSE "read"])

\* _forward_pipe_message(name, message) inside try/except: worker_manager.send
\* returns True or False, or raises (raises: a call inside it cannot start)
ReaderForward(i, ord, fault, raises) ==
    /\ i \in ReaderIds /\ rd.thr[i].pc = "forward"
    /\ LET n == rd.thr[i].name
           s == send(ReaderReport(i), n, rd.thr[i].line, ord, fault)
           result == IF raises THEN "raised" ELSE IF s.r THEN "True" ELSE "False"
       IN PipeCommit(IF raises THEN [ReaderReport(i) EXCEPT !.out.err = Raised] ELSE s.w,
                     [rd EXCEPT !.fwd[n] = Append(@, <<rd.thr[i].line, result>>),
                                !.thr[i].pc = "read"])

\* after the loop: if name in _pipe_reader_threads: pop; the thread ends
ReaderCleanup(i) ==
    /\ i \in ReaderIds /\ rd.thr[i].pc = "cleanup"
    /\ PipeCommit(stop_pipe_reader(ReaderReport(i), rd.thr[i].name),
                  [rd EXCEPT !.thr[i].pc = "dead", !.table[rd.thr[i].name] = 0])

\* another worker opens the FIFO for writing (blocks until a reader is there)
WriterOpens(n) ==
    /\ rd.fifo[n].writers = 0
    /\ HasReaderOpen(rd, n)
    /\ PipeCommit(Begin(W, "writer-opens", n),
                  [rd EXCEPT !.fifo[n].writers = 1, !.thr = Unblocked(@, n)])

WriterWrites(n, line) ==
    /\ rd.fifo[n].writers > 0
    /\ HasReaderOpen(rd, n)
    /\ Len(rd.wrote[n]) < MaxLines
    /\ PipeCommit(Begin(W, "writer-writes", n),
                  [rd EXCEPT !.fifo[n].buf = Append(@, line), !.wrote[n] = Append(@, line)])

WriterCloses(n) ==
    /\ rd.fifo[n].writers > 0
    /\ PipeCommit(Begin(W, "writer-closes", n), [rd EXCEPT !.fifo[n].writers = 0])

\* mutant of Started: a thread is started whether or not n has one
Started_Always(r, w, n) ==
    [r EXCEPT !.thr = Append(@, NewReader(n)), !.table[n] = Len(r.thr) + 1]

\* the thread a handler started for n, if it has put n into _pipe_reader_threads
Started(r, w, n) ==
    IF n \in w.readers /\ n \notin readers
    THEN [r EXCEPT !.thr = Append(@, NewReader(n)), !.table[n] = Len(r.thr) + 1]
    ELSE r

\* start_pipe_reader(n), called on its own
StartPipeReader(n) ==
    /\ Len(rd.thr) < MaxReaders
    /\ LET w == start_pipe_reader(Begin(W, "start_pipe_reader", n), n)
       IN PipeCommit(w, Started(rd, w, n))

\* hire(n, codex): marker file, FIFO and reader, then the welcome message
HirePipe(n, ord) ==
    /\ n \notin DOMAIN Registry(W)
    /\ Len(rd.thr) < MaxReaders
    /\ LET w == hire([Begin(W, "hire", n) EXCEPT !.out.arg = "codex"],
                     n, "codex", NoChat, ord, "none")
       IN PipeCommit(w, Started(rd, w, n))

NextPipe ==
    \/ \E n \in PipeNames : HirePipe(n, PipeOrder)
    \/ \E n \in PipeNames : StartPipeReader(n)
    \/ \E i \in 1..MaxReaders : ReaderLoop(i)
    \/ \E i \in 1..MaxReaders : ReaderOpen(i)
    \/ \E i \in 1..MaxReaders : ReaderCheck(i)
    \/ \E i \in 1..MaxReaders : ReaderReadline(i)
    \/ \E i \in 1..MaxReaders, fault \in PipeFaults, raises \in BOOLEAN :
          ReaderForward(i, PipeOrder, fault, raises)
    \/ \E n \in PipeNames : WriterOpens(n)
    \/ \E n \in PipeNames, line \in PipeLines : WriterWrites(n, line)
    \/ \E n \in PipeNames : WriterCloses(n)

SpecPipe == Init /\ [][NextPipe]_vars

\* ------------------------------------------------------- stop_pipe_reader
\* where reader i is: blocked in open(), blocked in readline(), or running
BlockedAt(r, i) ==
    LET f == r.fifo[r.thr[i].name]
    IN IF r.thr[i].pc = "blocked" THEN "open"
       ELSE IF r.thr[i].pc = "readline" /\ f.buf = <<>> /\ f.writers > 0 THEN "read"
       ELSE "running"

\* mutant of DummyWrite: nothing is written
DummyWrite_None(r, n) == r

\* os.open(O_WRONLY | O_NONBLOCK), os.write(fd, b"\n"), os.close(fd): the open
\* fails (OSError, passed over) unless a reader has the FIFO open or is
\* blocked opening it
DummyWrite(r, n) ==
    IF HasReaderOpen(r, n)
    THEN [r EXCEPT !.fifo[n].buf = Append(@, <<>>), !.thr = Unblocked(@, n)]
    ELSE r

\* stop_pipe_reader(n): no entry -> return; else pop the entry and set its event
StopBegin(n) ==
    /\ rd.stop[n].pc = "idle"
    /\ LET i == rd.table[n]
           w == stop_pipe_reader(Begin(W, "stop_pipe_reader", n), n)
       IN PipeCommit(w, IF i = 0 THEN rd
                        ELSE [rd EXCEPT !.table[n] = 0, !.thr[i].stop = TRUE,
                                        !.stop[n] = [pc |-> "write", thread |-> i,
                                                     at |-> BlockedAt(rd, i)]])

\* ... if pipe_path.exists(): the dummy write
StopWrite(n) ==
    /\ rd.stop[n].pc = "write"
    /\ PipeCommit(Begin(W, "stop_pipe_reader", n),
                  [(IF n \in pipes THEN DummyWrite(rd, n) ELSE rd)
                      EXCEPT !.stop[n].pc = "join"])

\* ... thread.join(timeout=1.0) returns, the thread ended or not (then a warning)
StopJoin(n) ==
    /\ rd.stop[n].pc = "join"
    /\ PipeCommit([Begin(W, "stop_pipe_reader", n)
                     EXCEPT !.out.ok = (rd.thr[rd.stop[n].thread].pc = "dead")],
                  [rd EXCEPT !.stop[n].pc = "idle"])

\* one statement of reader i
ReaderStep(i) ==
    \/ ReaderLoop(i)
    \/ ReaderOpen(i)
    \/ ReaderCheck(i)
    \/ ReaderReadline(i)
    \/ ReaderForward(i, PipeOrder, "none", FALSE)
    \/ ReaderCleanup(i)

\* each worker is hired once here, so it has one reader thread at most
StopReaders == 1..Cardinality(PipeNames)

\* a writer writes the first line to n's FIFO
WriterWritesFirst(n, line) ==
    /\ rd.wrote[n] = <<>>
    /\ WriterWrites(n, line)

NextStop ==
    \/ \E n \in PipeNames : HirePipe(n, PipeOrder)
    \/ \E i \in StopReaders : ReaderStep(i)
    \/ \E n \in PipeNames : WriterOpens(n)
    \/ \E n \in PipeNames : WriterWritesFirst(n, <<"h", "i">>)
    \/ \E n \in PipeNames : WriterCloses(n)
    \/ \E n \in PipeNames : StopBegin(n)
    \/ \E n \in PipeNames : StopWrite(n)
    \/ \E n \in PipeNames : StopJoin(n)

\* Threads that can run are run: every reader thread and a handler inside
\* stop_pipe_reader take their next statement in the end (a forward returns, a
\* join times out).  Writers are other workers: nothing makes them write.
SpecStop ==
    /\ Init /\ [][NextStop]_vars
    /\ \A i \in StopReaders : WF_vars(ReaderStep(i))
    /\ \A n \in PipeNames : WF_vars(StopWrite(n) \/ StopJoin(n))

\* ------------------------------- sends to workers of both kinds, on threads
\* alice and bob are interactive workers, carol is an exec worker; each thread
\* runs one Backend.send.
MixedOrder == <<"alice", "bob", "carol">>
InitMixed ==
    InitAt(hire(hire(hire(W0, "alice", "claude", NoChat, MixedOrder, "none"),
                     "bob", "claude", NoChat, MixedOrder, "none"),
                "carol", "codex", NoChat, MixedOrder, "none"))

\* CodexBackend.send: if not adapter.exists(): return False
ExecSendCall(t, n, fault) ==
    /\ th[t].pc = "idle"
    /\ adapters[n] < MaxAdapters
    /\ Step(t, IF fault = "adapter"
               THEN [th[t] EXCEPT !.pc = "done", !.op = "exec_send", !.name = n,
                                  !.res = "False"]
               ELSE [th[t] EXCEPT !.pc = "popen", !.op = "exec_send", !.name = n])
    /\ UNCHANGED <<sendLocks, guard, pane, adapters>>

\* subprocess.Popen([... adapter ...]); return True
ExecPopen(t) ==
    /\ th[t].pc = "popen"
    /\ adapters' = [adapters EXCEPT ![th[t].name] = @ + 1]
    /\ Step(t, [th[t] EXCEPT !.pc = "done", !.res = "True"])
    /\ UNCHANGED <<sendLocks, guard, pane>>

NextMixed ==
    \/ \E t \in Threads, n \in SendNames : SendCall(t, n)
    \/ \E t \in Threads, fault \in {"none", "adapter"} : ExecSendCall(t, "carol", fault)
    \/ \E t \in Threads : ExecPopen(t)
    \/ \E t \in Threads : EnterGuard(t)
    \/ \E t \in Threads : LookupLock(t)
    \/ \E t \in Threads : AcquireLock(t)
    \/ \E t \in Threads : SendText(t)
    \/ \E t \in Threads : Settle(t)
    \/ \E t \in Threads : SendEnter(t)

SpecMixed == InitMixed /\ [][NextMixed]_vars

\* ------------------------------------------- the shortcut specification
ShortcutArgs == {"", "hi"}

Shortcut(n, arg, c, ord, fault) ==
    /\ n \in WorkerNames
    /\ Commit(shortcut([Begin(W, "shortcut", n) EXCEPT !.out.arg = arg],
                       n, arg, c, ord, fault))

NextShortcut ==
    \/ \E n \in MsgNames, b \in MsgBackends : Hire(n, b, NoChat, <<"alice", "bob">>, "none")
    \/ \E n \in MsgNames \cup {"carol"}, arg \in ShortcutArgs, c \in MsgChats,
          ord \in Orders(MsgNames), fault \in MsgFaults : Shortcut(n, arg, c, ord, fault)
    \/ \E n \in MsgNames : ProcessExit(n)
    \/ \E n \in MsgNames : ExternalKill(n)

SpecShortcut == Init /\ [][NextShortcut]_vars

\* ------------------------------------------------ the webhook specification
\* Operator messages arrive at the webhook; a call inside the handler may raise.
PostUpdates == [chat : MsgChats, text : {Text("", "hi"), Text("ALL", "hi")},
                reply_to : {NoReplyTo}]
PostRaises == {"none", "update", "send"}
PostFaults == {[n \in WorkerNames |-> f] : f \in {"none", "text"}}

DoPost(update, ord, faults, raises) ==
    /\ raises = "send" => Mention(update.text) = ""
    /\ Commit(do_POST([Begin(W, "post", NoWorker) EXCEPT !.out.msg = update],
                      update, ord, faults, raises))

NextPost ==
    \/ \E n \in MsgNames, b \in MsgBackends : Hire(n, b, NoChat, <<"alice", "bob">>, "none")
    \/ \E update \in PostUpdates, ord \in Orders(MsgNames), faults \in PostFaults,
          raises \in PostRaises : DoPost(update, ord, faults, raises)
    \/ \E n \in MsgNames : ProcessExit(n)
    \/ \E n \in MsgNames : ExternalKill(n)

SpecPost == Init /\ [][NextPost]_vars

\* ------------------------------------------------ the registry specification
\* hires, ends and lookups while sessions come and go outside the bridge, some
\* of them sessions of another node (another TMUX_PREFIX) with a worker's name
RegNames == {"alice", "bob"}
RegBackends == {"claude", "codex"}
RegChats == {7}
RegOrder == <<"alice", "bob">>
OTHER_PREFIX == "prod-"

\* tmux new-session typed by hand, for another node's worker
ForeignCreate(n) ==
    /\ <<OTHER_PREFIX, n>> \notin tmux
    /\ Commit([Begin(W, "foreign-create", n) EXCEPT !.tmux = @ \cup {<<OTHER_PREFIX, n>>}])

\* get_registered_sessions() with no argument; the report keeps the dict returned
RegistryLookup(ord) ==
    /\ ord \in Orders(WorkerNames) \cup Orders(RegNames)
    /\ Commit([get_registered_sessions(Begin(W, "registry", NoWorker), ord)
                EXCEPT !.out.reg = DOMAIN Registry(W), !.out.answer = Registry(W),
                       !.out.ok = TRUE])

NextRegistry ==
    \/ \E n \in RegNames, b \in RegBackends, c \in RegChats : Hire(n, b, c, RegOrder, "none")
    \/ \E n \in RegNames : End(n, RegOrder)
    \/ \E n \in RegNames : ExternalKill(n)
    \/ \E n \in RegNames : ForeignCreate(n)
    \/ RegistryLookup(RegOrder)

SpecRegistry == Init /\ [][NextRegistry]_vars

\* ------------------------------------------------- the notifier specification
\* route_message starts one send_typing_loop thread per dispatched message
\* (bridge.py:2554-2558); each runs `while is_pending(n): sendChatAction; sleep(4)`
\* statement by statement while messages are dispatched to the interactive
\* workers, answers arrive and the clock goes on.
TypingNames == {"alice"}
TypingChats == {7}
TypingFaults == {"none", "text"}
TypingOrder == <<"alice", "bob", "carol">>

\* mutant of typing_next: the loop never leaves
typing_next_Always(pending) == "signal"

\* `while is_pending(session_name):` the statement after the test
typing_next(pending) == IF pending THEN "signal" ELSE "done"

\* the thread route_message has started, before its first test
Notifier(n, chat_id) ==
    [pc |-> "check", op |-> "typing", name |-> n, arg |-> chat_id, res |-> "none"]

NotifierReport(w, t, what) ==
    [w EXCEPT !.out = [NoOut EXCEPT !.op = what, !.name = th[t].name, !.status = t]]

\* route_message(n, ...) on a handler thread; t is the thread it starts
Dispatch(t, n, c, fault) ==
    /\ th[t] = Idle
    /\ jumps = 0
    /\ LET w == route_message(Begin(W, "route", n), n, "hi", c, TypingOrder, fault)
           started == \E i \in 1..Len(w.out.events) : w.out.events[i] = <<"notifier", n>>
       IN /\ CommitW(w)
          /\ th' = IF started THEN [th EXCEPT ![t] = Notifier(n, c)] ELSE th
    /\ UNCHANGED <<jumps, sendLocks, guard, pane, adapters, rd>>

\* while is_pending(session_name): the report says whether the marker file was
\* there (ok) and what is_pending returned (answer)
NotifierCheck(t) ==
    /\ th[t].op = "typing" /\ th[t].pc = "check"
    /\ LET n == th[t].name
           pending == is_pending_value(W, n)
           w == [NotifierReport(is_pending_state(W, n), t, "typing-check")
                    EXCEPT !.out.answer = pending,
                           !.out.ok = (W.pendingFile[n] # NoFile)]
       IN /\ CommitW(w)
          /\ th' = [th EXCEPT ![t].pc = typing_next(pending),
                          ![t].res = IF pending THEN "held" ELSE "gone"]
    /\ UNCHANGED <<jumps, sendLocks, guard, pane, adapters, rd>>

\* telegram_api("sendChatAction", {"chat_id": chat_id, "action": "typing"})
NotifierSignal(t) ==
    /\ th[t].op = "typing" /\ th[t].pc = "signal"
    /\ CommitW(Reply(NotifierReport(W, t, "typing"), th[t].arg, "typing", th[t].name))
    /\ th' = [th EXCEPT ![t].pc = "sleep"]
    /\ UNCHANGED <<jumps, sendLocks, guard, pane, adapters, rd>>

\* time.sleep(4)
NotifierSleep(t) ==
    /\ th[t].op = "typing" /\ th[t].pc = "sleep"
    /\ CommitW(NotifierReport(W, t, "typing-sleep"))
    /\ th' = [th EXCEPT ![t].pc = "check"]
    /\ UNCHANGED <<jumps, sendLocks, guard, pane, adapters, rd>>

NotifierStep(t) == NotifierCheck(t) \/ NotifierSignal(t) \/ NotifierSleep(t)

NextTyping ==
    \/ \E t \in Threads, n \in TypingNames, c \in TypingChats, fault \in TypingFaults :
          Dispatch(t, n, c, fault)
    \/ \E n \in TypingNames : ClearPending(n)
    \/ \E t \in Threads : NotifierCheck(t)
    \/ \E t \in Threads : NotifierSignal(t)
    \/ \E t \in Threads : NotifierSleep(t)
    \/ Jump

\* a started thread is scheduled, sendChatAction returns within its timeout
\* (bridge.py:413), sleep(4) returns, and time passes
SpecTyping ==
    /\ InitSend
    /\ [][NextTyping]_vars
    /\ \A t \in Threads : WF_vars(NotifierStep(t))
    /\ WF_vars(Jump)

\* --------------------------------------- route_message with its acknowledgement
\* tmux_prompt_empty(tmux_name, timeout=0.5): capture-pane is polled every 0.1 s
\* until the timeout; polls are the captures the environment returns in that
\* time, each "empty" (a line with the bare prompt), "typed" (the text still on
\* the prompt line) or "failed" (capture-pane returned non-zero)
RECURSIVE tmux_prompt_empty(_)
tmux_prompt_empty(polls) ==
    IF polls = <<>> THEN FALSE
    ELSE IF Head(polls) = "empty" THEN TRUE
    ELSE tmux_prompt_empty(Tail(polls))

\* mutant of acknowledge: a poll that runs out undoes the send
acknowledge_OrFail(w, session_name, session, polls) ==
    IF is_exec(get_backend(get_worker_backend(w, session_name, session)))
       \/ tmux_prompt_empty(polls)
    THEN Event(w, "reaction", session_name)
    ELSE Reply(clear_pending(w, session_name), NoChat, "Could not send", session_name)

\* bridge.py:2571-2573 after a send that went through: set_reaction, or nothing
acknowledge(w, session_name, session, polls) ==
    IF is_exec(get_backend(get_worker_backend(w, session_name, session)))
       \/ tmux_prompt_empty(polls)
    THEN Event(w, "reaction", session_name)
    ELSE w

\* route_message(session_name, text, chat_id, msg_id) to its last statement
route_message_msg(w, session_name, text, chat_id, msg_id, ord, fault, polls) ==
    LET r == route_message(w, session_name, text, chat_id, ord, fault)
        sent == /\ r.out.sends # <<>>
                /\ r.out.sends[Len(r.out.sends)][3]
    IN IF msg_id # 0 /\ sent
       THEN acknowledge(r, session_name, Registry(w)[session_name], polls)
       ELSE r

AckNames == {"alice", "bob"}
AckBackends == {"claude", "codex"}
AckChats == {7}
AckMsgIds == {0, 41}
AckFaults == {"none", "text", "adapter"}
AckOrder == <<"alice", "bob">>
AckPolls == {<<"empty">>, <<"typed", "empty">>, <<"failed", "typed", "typed">>,
             <<"typed", "typed", "typed">>}

\* the report keeps the message id (status) and what the poll came to (answer)
RouteMsg(n, msg_id, fault, polls) ==
    /\ n \in WorkerNames
    /\ Commit([route_message_msg([Begin(W, "route_message", n) EXCEPT !.out.status = msg_id],
                                 n, "hi", 7, msg_id, AckOrder, fault, polls)
                 EXCEPT !.out.answer = tmux_prompt_empty(polls)])

NextAck ==
    \/ \E n \in AckNames, b \in AckBackends, c \in AckChats :
          Hire(n, b, c, AckOrder, "none")
    \/ \E n \in AckNames, i \in AckMsgIds, fault \in AckFaults, polls \in AckPolls :
          RouteMsg(n, i, fault, polls)
    \/ \E n \in AckNames : ClearPending(n)
    \/ \E n \in AckNames : ProcessExit(n)

SpecAck == Init /\ [][NextAck]_vars

\* ------------------------------------------ the keystroke-writers specification
\* sends run statement by statement (tmux_send_message) next to the other
\* handlers that type into a session: /pause (tmux_send_escape) and restart
\* (send-keys of the start command), each on a handler thread of its own
KeyNames == {"alice", "bob"}
KeyOrder == <<"alice", "bob">>

\* CommandRouter.cmd_pause with the focus on an interactive worker: Escape is
\* typed into its session (tmux_send_escape, bridge.py:173-174), then the marker
\* is cleared and the operator told
Pause(t) ==
    /\ th[t].pc = "idle"
    /\ active # NoWorker
    /\ active \in DOMAIN Registry(W)
    /\ ~is_exec(get_backend(get_worker_backend(W, active, Registry(W)[active])))
    /\ LET n == active
           w == Reply(clear_pending(get_registered_sessions(W, KeyOrder), n),
                      NoChat, "is paused", n)
       IN /\ th' = [th EXCEPT ![t] = [th[t] EXCEPT !.pc = "done", !.op = "pause", !.name = n]]
          /\ CommitW([w EXCEPT !.out = [w.out EXCEPT !.op = "thread"]])
          /\ pane' = [pane EXCEPT ![n] =
                        IF tmux_exists(W, Registry(W)[n].tmux)
                        THEN Append(@, Keystroke("Escape", t)) ELSE @]
    /\ UNCHANGED <<jumps, sendLocks, guard, adapters, rd>>

\* WorkerManager.restart of an interactive worker whose process has exited: the
\* start command and Enter are typed into the session (bridge.py:1648-1658)
RestartKeys(t, n) ==
    /\ th[t].pc = "idle"
    /\ n \in DOMAIN Registry(W)
    /\ LET w == restart(Begin(W, "restart", n), n, KeyOrder)
       IN /\ w.out.ok /\ w.out.keys # <<>>
          /\ th' = [th EXCEPT ![t] = [th[t] EXCEPT !.pc = "done", !.op = "restart", !.name = n]]
          /\ CommitW([w EXCEPT !.out = [NoOut EXCEPT !.op = "thread"]])
          /\ pane' = [pane EXCEPT ![n] = Append(@, Keystroke("start_cmd", t))]
    /\ UNCHANGED <<jumps, sendLocks, guard, adapters, rd>>

NextKeys ==
    \/ \E t \in Threads, n \in KeyNames : SendCall(t, n)
    \/ \E t \in Threads : EnterGuard(t)
    \/ \E t \in Threads : LookupLock(t)
    \/ \E t \in Threads : AcquireLock(t)
    \/ \E t \in Threads : SendText(t)
    \/ \E t \in Threads : Settle(t)
    \/ \E t \in Threads : SendEnter(t)
    \/ \E t \in Threads : Pause(t)
    \/ \E t \in Threads, n \in KeyNames : RestartKeys(t, n)
    \/ \E n \in KeyNames : ProcessExit(n)

SpecKeys == InitSend /\ [][NextKeys]_vars

\* ------------------------------------- start_pipe_reader, thread by thread
\* GET /workers is served on a handler thread of its own; get_workers calls
\* ensure_worker_pipe for every exec worker, and that calls start_pipe_reader
\* (bridge.py:1478, 563).  A thread here runs one such call for one worker,
\* statement by statement.
StartNames == {"bob"}
StartOrder == <<"bob">>

\* a handler's step that changes the world to w, its thread to rec and the readers to r
StartCommit(t, rec, w, r) ==
    /\ th' = [th EXCEPT ![t] = rec]
    /\ CommitW([w EXCEPT !.out.status = t])
    /\ rd' = r
    /\ UNCHANGED <<jumps, sendLocks, guard, pane, adapters>>

\* the bridge process is stopped (its threads end with it) and started again
\* while no request is being served
PipeRestart(ord) ==
    /\ \A t \in Threads : th[t] = Idle
    /\ PipeCommit(main(Begin(W, "main", NoWorker), ord),
                  [NoReaders EXCEPT !.fifo = rd.fifo, !.wrote = rd.wrote, !.fwd = rd.fwd])

\* get_workers() reaches exec worker n: ensure_worker_pipe(n) makes the
\* directory and the FIFO if they are missing and calls start_pipe_reader(n)
GetWorkersCall(t, n) ==
    /\ th[t] = Idle
    /\ n \in DOMAIN Registry(W)
    /\ is_exec(get_backend(get_worker_backend(W, n, Registry(W)[n])))
    /\ StartCommit(t, [th[t] EXCEPT !.pc = "start_test", !.op = "get_workers", !.name = n],
                   [get_registered_sessions(Begin(W, "get_workers", n), StartOrder)
                       EXCEPT !.pipes = @ \cup {n}],
                   rd)

\* start_pipe_reader: `if name in _pipe_reader_threads: return`,
\* `if not pipe_path.exists(): return`
StartTest(t) ==
    /\ th[t].pc = "start_test"
    /\ LET n == th[t].name
       IN StartCommit(t, [th[t] EXCEPT !.pc = IF rd.table[n] # 0 \/ n \notin pipes
                                              THEN "done" ELSE "start_thread"],
                      Begin(W, "start_test", n), rd)

\* ... `_pipe_reader_threads[name] = (thread, stop_event)`, `thread.start()`
StartThread(t) ==
    /\ th[t].pc = "start_thread"
    /\ Len(rd.thr) < MaxReaders
    /\ LET n == th[t].name
       IN StartCommit(t, [th[t] EXCEPT !.pc = "done"],
                      [Begin(W, "start_thread", n) EXCEPT !.readers = @ \cup {n}],
                      [rd EXCEPT !.thr = Append(@, NewReader(n)),
                                 !.table[n] = Len(rd.thr) + 1])

\* the request is answered and its thread is gone
RequestEnds(t) ==
    /\ th[t].pc = "done" /\ th[t].op = "get_workers"
    /\ StartCommit(t, Idle, Begin(W, "request-ends", th[t].name), rd)

NextStart ==
    \/ \E n \in StartNames : HirePipe(n, StartOrder)
    \/ PipeRestart(StartOrder)
    \/ \E t \in Threads, n \in StartNames : GetWorkersCall(t, n)
    \/ \E t \in Threads : StartTest(t)
    \/ \E t \in Threads : StartThread(t)
    \/ \E t \in Threads : RequestEnds(t)
    \/ \E i \in 1..MaxReaders : ReaderLoop(i)
    \/ \E i \in 1..MaxReaders : ReaderOpen(i)

SpecStart == Init /\ [][NextStart]_vars

\* ------------------------------------------ readers that outlive their stop
\* end(n) of an exec worker as one step: the marker file goes, cleanup_worker_pipe
\* stops the reader (entry popped, event set, dummy write, join of at most 1 s)
\* and removes the FIFO.  The reader thread runs on its own: it may still be
\* alive when the join gives up and the handler returns.
LateNames == {"bob"}
LateOrder == <<"bob">>

\* stop_pipe_reader(n) up to the return of its join
Stopped(r, w, n) ==
    LET i == r.table[n]
        r1 == [r EXCEPT !.table[n] = 0, !.thr[i].stop = TRUE]
    IN IF i = 0 THEN r
       ELSE IF n \in w.pipes THEN DummyWrite(r1, n) ELSE r1

EndPipe(n, ord) ==
    /\ n \in DOMAIN Registry(W)
    /\ PipeCommit(end(Begin(W, "end", n), n, ord), Stopped(rd, W, n))

NextLate ==
    \/ \E n \in LateNames : HirePipe(n, LateOrder)
    \/ \E n \in LateNames : EndPipe(n, LateOrder)
    \/ \E n \in LateNames : StartPipeReader(n)
    \/ \E i \in 1..MaxReaders : ReaderLoop(i)
    \/ \E i \in 1..MaxReaders : ReaderOpen(i)
    \/ \E i \in 1..MaxReaders : ReaderCheck(i)
    \/ \E i \in 1..MaxReaders : ReaderCleanup(i)

SpecLate == Init /\ [][NextLate]_vars

\* ------------------------------------------- ending a worker with notifiers
\* workers of both kinds are hired, sent messages (each starting a notifier
\* thread) and ended while the notifiers run
EndTypingNames == {"alice"}
EndTypingBackends == {"claude", "codex"}
EndTypingFaults == {"none"}

NextEndTyping ==
    \/ \E n \in EndTypingNames, b \in EndTypingBackends :
          Hire(n, b, NoChat, TypingOrder, "none")
    \/ \E n \in EndTypingNames : End(n, TypingOrder)
    \/ \E t \in Threads, n \in EndTypingNames, c \in TypingChats, fault \in EndTypingFaults :
          Dispatch(t, n, c, fault)
    \/ \E t \in Threads : NotifierCheck(t)
    \/ \E t \in Threads : NotifierSignal(t)
    \/ \E t \in Threads : NotifierSleep(t)

SpecEndTyping == Init /\ [][NextEndTyping]_vars

\* ------------------------------------------------- the admin specification
\* the bridge starts with the admin pre-set (ADMIN_CHAT_ID in the environment,
\* bridge.py:305-307) or not set, and text messages arrive from two chats
AdminEnv == {NoChat, 7}
AdminChats == {7, 8}
AdminNames == {"alice", "bob"}
AdminTexts == {Text("", "hi"), Text("bob", "hi")}
AdminUpdates == [chat : AdminChats, text : AdminTexts, reply_to : {NoReplyTo}]
AdminOrder == <<"alice", "bob">>
AdminFaults == {[n \in WorkerNames |-> "none"]}

InitAdmin == \E a \in AdminEnv : InitAt([W0 EXCEPT !.adminChat = a])

\* POST / with a text message from one of the chats
MessageFrom(update, ord, faults) ==
    /\ update.chat \in AdminChats
    /\ Commit(handle_message([Begin(W, "message", NoWorker) EXCEPT !.out.msg = update],
                             update, ord, faults))

NextAdmin ==
    \/ \E n \in AdminNames : Hire(n, DEFAULT_BACKEND, NoChat, AdminOrder, "none")
    \/ \E update \in AdminUpdates, faults \in AdminFaults :
          MessageFrom(update, AdminOrder, faults)
    \/ \E n \in AdminNames : ExternalKill(n)

SpecAdmin == InitAdmin /\ [][NextAdmin]_vars

\* ------------------------------------- the admin identity, thread by thread
\* POST / is served on a handler thread per request (ThreadingHTTPServer);
\* a thread here runs handle_message for one text message up to the admin
\* test, statement by statement (bridge.py:2118-2131).  No lock is taken.
RaceChats == {7, 8}

RaceReport(what, t) == [Begin(W, what, NoWorker) EXCEPT !.out.status = t]

\* a text message from chat c arrives
MessageArrives(t, c) ==
    /\ th[t] = Idle
    /\ StepW(t, [th[t] EXCEPT !.pc = "admin_test", !.op = "message", !.arg = c],
             RaceReport("message-arrives", t))
    /\ UNCHANGED adapters

\* if admin_chat_id is None:
AdminTest(t) ==
    /\ th[t].pc = "admin_test"
    /\ StepW(t, [th[t] EXCEPT !.pc = IF adminChat = NoChat THEN "admin_set" ELSE "notify"],
             RaceReport("admin-test", t))
    /\ UNCHANGED adapters

\* admin_chat_id = chat_id; save_last_chat_id(chat_id)
AdminSet(t) ==
    /\ th[t].pc = "admin_set"
    /\ StepW(t, [th[t] EXCEPT !.pc = "notify"],
             save_last_chat_id([RaceReport("admin-set", t) EXCEPT !.adminChat = th[t].arg],
                               th[t].arg))
    /\ UNCHANGED adapters

\* if not state["startup_notified"]: set it, send_startup_message(chat_id)
StartupNotify(t) ==
    /\ th[t].pc = "notify"
    /\ StepW(t, [th[t] EXCEPT !.pc = "admin_check"],
             IF ~startupNotified
             THEN send_startup_message([RaceReport("notify", t) EXCEPT !.startupNotified = TRUE],
                                       th[t].arg, AdminOrder)
             ELSE RaceReport("notify", t))
    /\ UNCHANGED adapters

\* if chat_id != admin_chat_id: return; else save_last_chat_id and go on to
\* the commands and the routing
AdminCheck(t) ==
    /\ th[t].pc = "admin_check"
    /\ IF th[t].arg # adminChat
       THEN StepW(t, [th[t] EXCEPT !.pc = "rejected"], RaceReport("admin-check", t))
       ELSE StepW(t, [th[t] EXCEPT !.pc = "processed"],
                  save_last_chat_id(RaceReport("admin-check", t), th[t].arg))
    /\ UNCHANGED adapters

NextRace ==
    \/ \E t \in Threads, c \in RaceChats : MessageArrives(t, c)
    \/ \E t \in Threads : AdminTest(t)
    \/ \E t \in Threads : AdminSet(t)
    \/ \E t \in Threads : StartupNotify(t)
    \/ \E t \in Threads : AdminCheck(t)

SpecRace == Init /\ [][NextRace]_vars

\* --------------------------------------- tmux_send_message under fairness
\* one statement of thread t inside ClaudeBackend.send
SendStep(t) ==
    \/ EnterGuard(t)
    \/ LookupLock(t)
    \/ AcquireLock(t)
    \/ SendText(t)
    \/ Settle(t)
    \/ SendEnter(t)

\* the sends of SpecSend with every thread scheduled again and again: a
\* statement that can be executed is executed at some time (tmux send-keys
\* returns, with either return code; the sleep ends)
SpecSendFair ==
    /\ InitSend
    /\ [][NextSend]_vars
    /\ \A t \in Threads : WF_vars(SendStep(t))

\* ================================================================= claims
\* What get_registered() would return in the current state.
RegisteredNow == DOMAIN Registry(W)

\* the focus pointer agrees with a registry: empty only if the registry is, else a member
FocusAgrees(reg) == IF active = NoWorker THEN reg = {} ELSE active \in reg

\* C1 (as claimed): right after a successful hire(n) the registry contains n, and
\* right after a successful end(n) the registry does not contain n, whatever
\* hires and ends came before.
C1_HireThenEndRegistry ==
    /\ (out.op = "hire" /\ out.ok) => out.name \in RegisteredNow
    /\ (out.op = "end" /\ out.ok) => out.name \notin RegisteredNow

\* C3: after every return of get_registered() the focus pointer is empty only
\* if the returned registry is empty, and otherwise names a worker of the
\* returned registry; after a successful end() the same holds of the registry
\* as it then is (focus never left on the ended worker's vanished entry).
C3_FocusInvariant ==
    /\ out.op = "get_registered" => FocusAgrees(out.reg)
    /\ (out.op = "end" /\ out.ok) => FocusAgrees(RegisteredNow)

\* C3 witness: the focused (last hired) worker was ended and focus moved on to
\* a remaining worker.
C3_Witness ==
    /\ out.op = "end" /\ out.ok
    /\ lastActive = out.name
    /\ active # NoWorker /\ active # out.name

\* C9: restart(n) on an interactive worker whose process-name check reports the
\* process running returns (False, "Worker is already running") and writes no
\* keystroke and no environment variable, kills and creates no session, and
\* leaves the sessions, the markers and the pipes as they were.
C9_RestartRunningIsNoOp ==
    [][(/\ out'.op = "restart"
        /\ out'.name \in DOMAIN scan_tmux_sessions(W)
        /\ is_claude_running(W, TmuxName(out'.name)))
       => (/\ ~out'.ok
           /\ out'.err = <<"Worker is already running">>
           /\ out'.keys = <<>> /\ out'.envs = {} /\ out'.kills = {}
           /\ out'.created = {} /\ out'.spawns = <<>>
           /\ UNCHANGED <<tmux, tmuxEnv, procRunning, backendFile, pendingFile,
                          chatIdFile, sessionIdFiles, inboxFiles, pipes, readers>>)]_vars

C9_Witness ==
    /\ out.op = "restart"
    /\ out.err = <<"Worker is already running">>
    /\ TmuxName(out.name) \in procRunning
    /\ out.name \in readers

\* C10 (as claimed): hire(n, kind) with a valid kind fails with AlreadyExists and
\* changes nothing whenever n is already in the registry.
C10_HireExistingFails ==
    [][(/\ out'.op = "hire"
        /\ is_valid_backend(out'.arg)
        /\ out'.name \in RegisteredNow)
       => (/\ ~out'.ok
           /\ out'.err = AlreadyExists(out'.name)
           /\ UNCHANGED <<tmux, tmuxEnv, procRunning, backendFile, pendingFile,
                          chatIdFile, pipes, readers, active, lastActive>>)]_vars

\* ------------------------------------------------------------------- C2
\* the thread holds the session's lock: it is inside write-text / settle / Enter
InSequence(t, n) == th[t].name = n /\ th[t].pc \in {"text", "sleep", "enter"}

\* C2: sends to the same interactive worker from different threads never interleave:
\* at most one thread is inside the write-text / settle / Enter sequence of a
\* session, and in the session's keystroke stream every payload is either the
\* last keystroke so far or is immediately followed by the Enter of its own sender.
C2_SendsSerialized ==
    \A n \in SendNames :
        /\ \A t, u \in Threads : (t # u /\ InSequence(t, n)) => ~InSequence(u, n)
        /\ \A i \in 1..Len(pane[n]) :
              pane[n][i].key = "text" =>
                \/ i = Len(pane[n])
                \/ /\ pane[n][i + 1].key = "Enter"
                   /\ pane[n][i + 1].by = pane[n][i].by

\* one thread has written its payload and is settling while another thread waits
\* for the same session's lock
C2_Witness ==
    \E n \in SendNames : \E t, u \in Threads :
        /\ t # u
        /\ th[t].name = n /\ th[t].pc = "sleep"
        /\ th[u].name = n /\ th[u].pc = "acquire"
        /\ pane[n] # <<>> /\ pane[n][Len(pane[n])] = Keystroke("text", t)

\* ------------------------------------------------------------ C4 and C5
HasTimestamp(n) == pendingFile[n] # NoFile /\ pendingFile[n][1] # EmptyText
\* now minus the marker's recorded (whole-second) timestamp, in ticks
MarkerAge(n) == now - pendingFile[n][1][1] * TicksPerSec

\* C4 (as claimed): is_pending(n) is true exactly when the marker exists and its
\* age is strictly less than 600 s, and a call that finds an expired marker
\* deletes it.
C4_PendingIffYoungerThan600 ==
    [][out'.op = "is_pending" =>
        LET n == out'.name IN
        /\ out'.answer <=> (HasTimestamp(n) /\ MarkerAge(n) < PENDING_TIMEOUT * TicksPerSec)
        /\ (HasTimestamp(n) /\ ~out'.answer) => pendingFile'[n] = NoFile]_vars

\* C4 (amended): is_pending(n) is true exactly when the marker exists and the
\* time since its recorded timestamp is at most 600 s; a call that finds an
\* older marker deletes it and answers false, and no other marker is touched.
C4_PendingIffAtMost600 ==
    [][out'.op = "is_pending" =>
        LET n == out'.name IN
        /\ out'.answer <=> (HasTimestamp(n) /\ MarkerAge(n) <= PENDING_TIMEOUT * TicksPerSec)
        /\ (HasTimestamp(n) /\ ~out'.answer) => pendingFile'[n] = NoFile
        /\ out'.answer => pendingFile'[n] = pendingFile[n]
        /\ \A m \in WorkerNames \ {n} : pendingFile'[m] = pendingFile[m]]_vars

\* C4 witness: a marker exactly 600 s old was read and reported pending ...
C4_Witness ==
    /\ out.op = "is_pending" /\ out.answer
    /\ HasTimestamp(out.name)
    /\ MarkerAge(out.name) = PENDING_TIMEOUT * TicksPerSec

\* C5: after clear_pending(n) the marker of n is gone, is_pending(n) is false
\* and stays false until the next set_pending(n, _); clear_pending without a
\* marker changes nothing, and clear_pending never touches the chat id.
C5_ClearPending ==
    [][/\ out'.op = "clear_pending" =>
            /\ ~is_pending_value(W', out'.name)
            /\ pendingFile'[out'.name] = NoFile
            /\ chatIdFile' = chatIdFile
            /\ pendingFile[out'.name] = NoFile => pendingFile' = pendingFile
       /\ \A n \in WorkerNames :
            (~is_pending_value(W, n) /\ ~(out'.op = "set_pending" /\ out'.name = n))
                => ~is_pending_value(W', n)]_vars

\* C5 witness: a live marker with a chat id was cleared
C5_Witness ==
    /\ out.op = "clear_pending"
    /\ pendingFile[out.name] = NoFile
    /\ chatIdFile[out.name] # NoFile
    /\ \E m \in WorkerNames : m # out.name /\ is_pending_value(W, m)

\* ------------------------------------------------------------------- C6
IsPendingNow(n) == is_pending_value(W, n)

\* the step is a routed send to n that a backend accepted / refused
RoutedTo(n, accepted) ==
    /\ out'.op = "route_message" /\ out'.name = n
    /\ out'.sends # <<>> /\ out'.sends[Len(out'.sends)][3] = accepted

\* the step handles a POST /response whose body names n under the key k
ResponseFor(n, k) == out'.op = "response" /\ out'.name = n /\ out'.arg = k
Says(text) == out'.text = text

ExpiresNext(n) == HasTimestamp(n) /\ Expired(now', pendingFile[n][1][1])

OnlineNow == {n \in RegisteredNow : is_online(W, n, Registry(W)[n])}
SentTo(o) == {o.sends[i][1] : i \in 1..Len(o.sends)}
ReportedOn(o) == {o.replies[i][3] : i \in 1..Len(o.replies)}

\* C8 (as claimed): a broadcast over three registered workers of which exactly one
\* is offline invokes send once on each of the two online workers, whatever
\* happens to the send of the other, and reports the offline worker to the operator.
C8_BroadcastReportsOffline ==
    [][(/\ out'.op = "route_to_all"
        /\ Cardinality(RegisteredNow) = 3
        /\ Cardinality(OnlineNow) = 2)
       => (/\ SentTo(out') = OnlineNow
           /\ Len(out'.sends) = 2
           /\ (RegisteredNow \ OnlineNow) \subseteq ReportedOn(out'))]_vars

\* ------------------------------------------------------------------- C7
\* C7 (as claimed): hire and a routed send write the chat id of an exec worker
\* before they start its adapter, hence every POST /response of an adapter, at
\* whatever time after its start it arrives, finds the chat id and is delivered:
\* none is answered 404 or 500.
C7_RepliesDelivered ==
    \A t \in Threads :
        (th[t].op = "response" /\ th[t].pc = "idle") => th[t].res = "200"

\* the workers a broadcast tried to send to and was refused by the backend
Refused(o) == {o.sends[i][1] : i \in {j \in 1..Len(o.sends) : ~o.sends[j][3]}}

\* C8 (amended): a broadcast over three registered workers of which exactly one is
\* offline invokes send once on each of the two online workers, also when the
\* send to one of them fails; the operator is told of exactly the workers whose
\* send failed, and nothing is reported about the offline worker, which is skipped.
C8_BroadcastSkipsOffline ==
    [][(/\ out'.op = "route_to_all"
        /\ Cardinality(RegisteredNow) = 3
        /\ Cardinality(OnlineNow) = 2)
       => (/\ SentTo(out') = OnlineNow
           /\ Len(out'.sends) = 2
           /\ ReportedOn(out') = Refused(out')
           /\ (RegisteredNow \ OnlineNow) \cap ReportedOn(out') = {})]_vars

\* a broadcast over three workers, one of them offline, has just sent to the two
\* others: the first send failed and was reported, the second went through
C8_Witness ==
    /\ out.op = "route_to_all"
    /\ Cardinality(RegisteredNow) = 3 /\ Cardinality(OnlineNow) = 2
    /\ Len(out.sends) = 2 /\ ~out.sends[1][3] /\ out.sends[2][3]
    /\ Len(out.replies) = 1 /\ out.replies[1][2] = "Could not send"

\* ------------------------------------------------------------------ C11
\* C11 (as claimed): send(n, text) returns false, writes no keystroke into any
\* session and spawns no process whenever n is not in the registry or n is
\* registered but offline.
C11_SendRefusesOffline ==
    [][(/\ out'.op = "send"
        /\ out'.name \notin OnlineNow)
       => (/\ ~out'.ok
           /\ out'.keys = <<>>
           /\ out'.spawns = <<>>)]_vars

\* ------------------------------------------------------------ C12 and C13
\* the step handles a message routed to the worker n
Routed(n) == out'.op = "route_message" /\ out'.name = n
Replies(o, what) == {i \in 1..Len(o.replies) : o.replies[i][2] = what}

\* C12: a routed message reaches Backend.send only if its target is registered and
\* online when it is checked; an absent target gets exactly one "can't find"
\* reply, an offline one exactly one "offline" reply, and in both cases no pending
\* marker is set and no notifier started; when the send is performed, the marker
\* is set and the notifier started before Backend.send is called.
C12_RouteChecksThenSends ==
    [][\A n \in WorkerNames : Routed(n) =>
         /\ out'.sends # <<>> => n \in OnlineNow
         /\ n \notin RegisteredNow =>
               /\ Len(out'.replies) = 1 /\ Replies(out', "Can't find") = {1}
               /\ out'.events = <<>>
               /\ UNCHANGED <<pendingFile, chatIdFile>>
         /\ (n \in RegisteredNow /\ n \notin OnlineNow) =>
               /\ Len(out'.replies) = 1 /\ Replies(out', "is offline") = {1}
               /\ out'.events = <<>>
               /\ UNCHANGED <<pendingFile, chatIdFile>>
         /\ n \in OnlineNow =>
               /\ Len(out'.events) >= 3
               /\ out'.events[1] = <<"set_pending", n>>
               /\ out'.events[2] = <<"notifier", n>>
               /\ out'.events[3] = <<"send", n>>]_vars

\* a message routed to an offline interactive worker has just been refused
C12_Witness ==
    /\ out.op = "route_message"
    /\ out.name \in RegisteredNow /\ out.name \notin OnlineNow
    /\ Len(out.replies) = 1 /\ out.replies[1][2] = "is offline"
    /\ out.sends = <<>>

\* C13: for one routed message Backend.send is invoked at most once; when it
\* returns false the pending marker set for the send is cleared and exactly one
\* "could not send" reply is produced; nothing is sent except in handling an
\* operator's action.
C13_FailedSendNotRetried ==
    [][/\ \A n \in WorkerNames : Routed(n) =>
            /\ Len(out'.sends) <= 1
            /\ (out'.sends # <<>> /\ ~out'.sends[1][3]) =>
                  /\ pendingFile'[n] = NoFile
                  /\ Len(out'.replies) = 1 /\ Replies(out', "Could not send") = {1}
            /\ (out'.sends # <<>> /\ out'.sends[1][3]) => out'.replies = <<>>
       /\ out'.sends # <<>> => out'.op \in {"route_message", "send", "hire"}]_vars

\* a routed send that the backend refused: reported once, the marker gone
C13_Witness ==
    /\ out.op = "route_message"
    /\ out.sends # <<>> /\ ~out.sends[1][3]
    /\ pendingFile[out.name] = NoFile
    /\ out.replies = << <<7, "Could not send", out.name>> >>

\* ------------------------------------------------------------ C14 and C15
\* the step handles a text message of the admin chat that is not a broadcast
\* / that is a broadcast
Handled == out'.op = "message" /\ out'.msg.chat = adminChat'
Broadcast == Handled /\ Lower(Mention(out'.msg.text)) = "all"
Targeted == Handled /\ Lower(Mention(out'.msg.text)) # "all"

\* the message starts with @name and name is a registered worker
ByMention(u) == Mention(u.text) # "" /\ Lower(Mention(u.text)) \in RegisteredNow

\* the text of the message replied to (empty when there is none)
RepliedText(u) == IF u.reply_to = NoReplyTo THEN Text("", "") ELSE u.reply_to[1].text

\* the message replies to a bot message that starts with a registered worker's name
ByReplyToWorker(u) ==
    /\ u.reply_to # NoReplyTo
    /\ u.reply_to[1].is_bot
    /\ RepliedText(u)[1] # "" /\ Lower(RepliedText(u)[1]) \in RegisteredNow

\* the workers a handler sent to or replied about
Addressed(o) == (SentTo(o) \cup ReportedOn(o)) \ {NoWorker}

\* C14: a non-command text is routed to exactly one target chosen by precedence:
\* the registered worker a leading @name names, also when the message is a reply;
\* else the registered worker whose bot message is replied to; else the focused
\* worker, with the replied text as context when the message replied to has
\* text and with the plain text otherwise.
C14_RoutePrecedence ==
    [][Targeted =>
         LET u == out'.msg
             target == IF ByMention(u) THEN Lower(Mention(u.text))
                       ELSE IF ByReplyToWorker(u) THEN Lower(RepliedText(u)[1])
                       ELSE active'
         IN /\ Len(out'.sends) <= 1
            /\ Addressed(out') = {target} \ {NoWorker}
            /\ (out'.sends # <<>> /\ ~ByMention(u) /\ ~ByReplyToWorker(u)) =>
                  out'.sends[1][2] = IF IsEmptyText(RepliedText(u)) THEN u.text
                                     ELSE format_reply_context(u.text, RepliedText(u))]_vars

\* a message "@Bob hi" sent as a reply to alice's message has gone to bob, who is
\* not the focused worker
C14_Witness ==
    /\ out.op = "message"
    /\ Mention(out.msg.text) = "Bob"
    /\ out.msg.reply_to = ReplyTo(TRUE, "alice", "done")
    /\ {"alice", "bob"} \subseteq RegisteredNow
    /\ active = "alice"
    /\ Len(out.sends) = 1 /\ out.sends[1][1] = "bob" /\ out.sends[1][3]

\* C15 (as claimed): handling an @name one-off message or an @all broadcast leaves
\* the focus pointer and its persisted value exactly as they were.
C15_OneOffKeepsFocus ==
    [][(Broadcast \/ (Targeted /\ ByMention(out'.msg)))
       => UNCHANGED <<active, lastActive>>]_vars

\* C15 (amended): handling an @name one-off message or an @all broadcast leaves
\* the persisted focus as it was, and leaves the focus pointer as it was whenever
\* it named a registered worker; a focus pointer that is empty or names a worker
\* no longer registered is cleared or re-picked by the registry lookup.
C15_OneOffKeepsValidFocus ==
    [][(Broadcast \/ (Targeted /\ ByMention(out'.msg)))
       => (/\ UNCHANGED lastActive
           /\ active \in RegisteredNow => UNCHANGED active
           /\ active \notin RegisteredNow =>
                 IF RegisteredNow = {} THEN active' = NoWorker
                 ELSE active' \in RegisteredNow)]_vars

\* "@Bob hi" has been sent to bob while alice stays in focus
C15_Witness ==
    /\ out.op = "message" /\ Mention(out.msg.text) = "Bob"
    /\ Len(out.sends) = 1 /\ out.sends[1][1] = "bob"
    /\ active = "alice" /\ lastActive = "alice"

KnownBefore(n) == n \in RegisteredNow
ExecBefore(n) == is_exec(get_backend(get_worker_backend(W, n, Registry(W)[n])))

\* end(n) on a worker of the registry: what it removes
EndRemoves(n) ==
    /\ out'.ok
    /\ IF ExecBefore(n)
       THEN backendFile'[n] = NoFile /\ n \notin sessionIdFiles'
       ELSE Registry(W)[n].tmux \notin tmux' /\ Registry(W)[n].tmux \in out'.kills
    /\ n \notin inboxFiles' /\ n \notin pipes' /\ n \notin readers'

ReconciledFrom(before, reg) ==
    IF before \in reg THEN active' = before
    ELSE IF reg = {} THEN active' = NoWorker ELSE active' \in reg

RestartResets(n) ==
    IF ExecBefore(n)
    THEN /\ out'.ok /\ out'.keys = <<>> /\ out'.envs = {}
         /\ n \notin sessionIdFiles' /\ n \in pipes' /\ pendingFile'[n] = NoFile
    ELSE ~is_claude_running(W, Registry(W)[n].tmux)
         => /\ out'.ok
            /\ out'.envs = {Registry(W)[n].tmux}
            /\ out'.keys = << <<Registry(W)[n].tmux, <<START_CMD>>>>,
                              <<Registry(W)[n].tmux, <<"Enter">>>> >>

\* restart never creates or kills a session and keeps a registered n registered
RestartKeepsSessions(n) ==
    /\ out'.created = {} /\ out'.kills = {} /\ UNCHANGED tmux
    /\ KnownBefore(n) => n \in RegisteredNow'

\* C18 (as claimed): restart(n) never creates or destroys a session and never
\* removes n from the registry; an interactive worker whose process is not
\* running gets the environment re-exported and the start command typed into
\* its session; an exec worker loses its saved continuation state, has its
\* pipe, has pending cleared and gets success; an unknown name gets failure
\* and nothing changes.
C18_RestartChangesNothingIfUnknown ==
    [][out'.op = "restart"
       => /\ RestartKeepsSessions(out'.name)
          /\ IF KnownBefore(out'.name) THEN RestartResets(out'.name)
             ELSE /\ ~out'.ok /\ out'.err = NotFound(out'.name)
                  /\ UNCHANGED <<tmux, tmuxEnv, procRunning, backendFile, pendingFile,
                                 chatIdFile, sessionIdFiles, inboxFiles, pipes, readers,
                                 active, lastActive>>]_vars

\* C18 (amended): the same, except that for an unknown name the focus pointer
\* is reconciled by the registry lookup restart makes first; everything else,
\* the persisted name included, is unchanged.
C18_RestartReconcilesFocus ==
    [][out'.op = "restart"
       => /\ RestartKeepsSessions(out'.name)
          /\ UNCHANGED lastActive
          /\ ReconciledFrom(active, RegisteredNow)
          /\ IF KnownBefore(out'.name) THEN RestartResets(out'.name)
             ELSE /\ ~out'.ok /\ out'.err = NotFound(out'.name)
                  /\ UNCHANGED <<tmux, tmuxEnv, procRunning, backendFile, pendingFile,
                                 chatIdFile, sessionIdFiles, inboxFiles, pipes,
                                 readers>>]_vars

\* C18 witness: an exec worker with a pending marker and a saved continuation
\* id was restarted; both are gone, the worker and its pipe are still there.
C18_Witness ==
    /\ out.op = "restart" /\ out.ok /\ out.keys = <<>>
    /\ backendFile[out.name] # NoFile /\ chatIdFile[out.name] # NoFile
    /\ pendingFile[out.name] = NoFile /\ out.name \notin sessionIdFiles
    /\ out.name \in pipes /\ out.name \in RegisteredNow

\* a handler thread finishes a POST /response in this step
ResponseEnds(t) == th[t].op = "response" /\ th[t].pc # "idle" /\ th'[t].pc = "idle"

\* C19 (as claimed): a POST /response for worker n either finds no chat id and
\* is answered 404 with the pending marker left alone, or is delivered to the
\* chat id set_pending recorded for n and answered 200 with the pending marker
\* cleared; it ends in no other way.
C19_ResponseDeliveredOrNotFound ==
    [][\A t \in Threads :
         ResponseEnds(t)
         => \/ /\ th'[t].res = "404"
               /\ chatIdFile[th[t].name] = NoFile
               /\ UNCHANGED pendingFile
            \/ /\ th'[t].res = "200"
               /\ th[t].arg \in ReplyChats
               /\ pendingFile'[th[t].name] = NoFile]_vars

\* C20 (as claimed): when the bridge process restarts, the focus pointer it
\* comes up with is the one it went down with, whenever that worker is still
\* in the registry.
C20_FocusRestoredOnRestart ==
    [][(out'.op = "main" /\ active \in RegisteredNow) => active' = active]_vars

\* the name a /hire argument list comes down to: after flag parsing, prefix
\* stripping, lower-casing and dropping every character outside [a-z0-9-]
HireName(parts) == sanitize_name(parse_hire_args(parts).name)

C22_ExceptionAnswered ==
    [][(out'.op = "post" /\ out'.err = Raised)
       => /\ <<"log", NoWorker>> \in {out'.events[i] : i \in 1..Len(out'.events)}
          /\ out'.status = 200
          /\ \E i \in 1..Len(out'.replies) :
                /\ out'.replies[i][1] = out'.msg.chat
                /\ out'.replies[i][2] \notin {"I'm online and ready"}]_vars

InFocusUpdate(t) == th[t].pc \in {"clear", "pick"}
\* the locks of the program that thread t holds
HoldsLock(t) == guard = t \/ \E s \in DOMAIN sendLocks : sendLocks[s] = t

\* C24 (as claimed): the focus pointer is guarded by a lock: a thread inside a
\* read-modify-write of the focus pointer holds a lock, so no two threads are
\* inside one at the same time.
C24_FocusGuarded ==
    /\ \A t \in Threads : InFocusUpdate(t) => HoldsLock(t)
    /\ \A t1, t2 \in Threads : (InFocusUpdate(t1) /\ InFocusUpdate(t2)) => t1 = t2

\* the registered workers whose backend is an exec backend
ExecNow == {n \in RegisteredNow : ExecBefore(n)}

\* C25 (as claimed): in every reachable state, also after the bridge process has
\* restarted and found its exec workers again from their marker files, each
\* registered exec worker has its live pipe-reader thread.
C25_ExecWorkersHaveReader == \A n \in ExecNow : n \in readers

\* C26 (as claimed): while a request dispatched to n less than 600 s ago is
\* unanswered, is_pending(n) is true, also when several requests to n are
\* outstanding and one of them has been answered, or a later send has failed.
C26_PendingWhileOutstanding == \A n \in OweNames : adapters[n] > 0 => IsPendingNow(n)

\* the reader threads of n that have not ended
LiveReaders(r, n) == {i \in 1..Len(r.thr) : r.thr[i].name = n /\ r.thr[i].pc # "dead"}

\* C27: start_pipe_reader(n) while n's reader is running starts no thread; after
\* a start call n has exactly one live reader thread if its FIFO exists, and a
\* start for a worker without a FIFO starts none.
C27_StartIsIdempotent ==
    [][out'.op = "start_pipe_reader"
       => /\ rd.table[out'.name] # 0 => rd'.thr = rd.thr
          /\ out'.name \notin pipes => rd'.thr = rd.thr
          /\ Cardinality(LiveReaders(rd', out'.name)) = IF out'.name \in pipes THEN 1 ELSE 0]_vars

\* start was called for bob while his one reader was in the middle of forwarding
C27_Witness ==
    /\ out.op = "start_pipe_reader" /\ out.name = "bob"
    /\ Len(rd.thr) = 1 /\ rd.thr[1].pc = "forward" /\ rd.fwd["bob"] # <<>>

\* what the claim expects of a line, stated without str.strip: a blank line has
\* whitespace only, and the text of a line runs from its first to its last
\* character that is not whitespace
Blank(line) == \A k \in 1..Len(line) : line[k] \in Whitespace
Inked(line) == {k \in 1..Len(line) : line[k] \notin Whitespace}
TextOf(line) ==
    IF Blank(line) THEN <<>>
    ELSE SubSeq(line, CHOOSE a \in Inked(line) : \A k \in Inked(line) : a <= k,
                      CHOOSE b \in Inked(line) : \A k \in Inked(line) : b >= k)
RECURSIVE TextsOf(_)
TextsOf(lines) ==
    IF lines = <<>> THEN <<>>
    ELSE IF Blank(Head(lines)) THEN TextsOf(Tail(lines))
    ELSE <<TextOf(Head(lines))>> \o TextsOf(Tail(lines))
\* the messages handed to Registry.send for n so far, in the order of the calls
Forwarded(r, n) == [k \in 1..Len(r.fwd[n]) |-> r.fwd[n][k][1]]
\* the message a reader of n has read and is about to forward
InHand(r, n) ==
    IF \E i \in 1..Len(r.thr) : r.thr[i].name = n /\ r.thr[i].pc = "forward"
    THEN <<r.thr[CHOOSE i \in 1..Len(r.thr) :
                    r.thr[i].name = n /\ r.thr[i].pc = "forward"].line>>
    ELSE <<>>
\* the step is reader i's, taken from the statement pc
ReaderStepFrom(pc) ==
    /\ out'.op = "reader" /\ out'.status \in ReaderIds
    /\ rd.thr[out'.status].pc = pc

\* C29 (as claimed): the reader calls Registry.send(n, line) exactly once for
\* each non-empty line delivered on n's FIFO, in order, and never for an empty
\* line: the lines forwarded, the one in hand and the non-empty ones still
\* unread are together the non-empty lines written.
C29_EveryNonEmptyLineForwarded ==
    \A n \in PipeNames :
        Forwarded(rd, n) \o InHand(rd, n) \o SelectSeq(rd.fifo[n].buf, LAMBDA l : l # <<>>)
            = SelectSeq(rd.wrote[n], LAMBDA l : l # <<>>)

\* C29 (amended): while it has not been told to stop, the reader calls
\* Registry.send(n, message) exactly once, in order, for each line delivered on
\* n's FIFO that is not blank, message being the line without its leading and
\* trailing whitespace, and never for an empty or whitespace-only line; after
\* EOF it goes back to re-open the FIFO and wait for the next writer; whatever
\* a forward returns or raises, the reader goes on to read the next line.
C29_EveryTextLineForwarded ==
    [][/\ \A n \in PipeNames :
             Forwarded(rd', n) \o InHand(rd', n) \o TextsOf(rd'.fifo[n].buf)
                 = TextsOf(rd'.wrote[n])
       /\ (ReaderStepFrom("readline") /\ rd.fifo[out'.name].buf = <<>>)
             => rd'.thr[out'.status].pc = "loop"
       /\ ReaderStepFrom("loop") => rd'.thr[out'.status].pc = "open"
       /\ ReaderStepFrom("forward")
             => /\ rd'.thr[out'.status].pc = "read"
                /\ Len(rd'.fwd[out'.name]) = Len(rd.fwd[out'.name]) + 1]_vars

\* a blank line was skipped, "hi" was forwarded and the send failed, " yo" was
\* forwarded after it as "yo", and after EOF the reader waits in open() again
C29_Witness ==
    /\ rd.wrote["bob"] = << <<" ">>, <<"h", "i">>, <<" ", "y", "o">> >>
    /\ rd.fwd["bob"] = << <<<<"h", "i">>, "False">>, <<<<"y", "o">>, "True">> >>
    /\ Len(rd.thr) = 1 /\ rd.thr[1].pc = "blocked"

\* stop_pipe_reader was called on reader i while it was blocked in open or read
StoppedWhileBlocked(i) ==
    /\ i \in ReaderIds /\ rd.thr[i].stop
    /\ rd.stop[rd.thr[i].name].thread = i
    /\ rd.stop[rd.thr[i].name].at \in {"open", "read"}
ReaderEnded(i) == i \in ReaderIds /\ rd.thr[i].pc = "dead"

\* C28: a reader that stop_pipe_reader is called on while it is blocked in open
\* or read leaves its loop and ends by itself in the end; a thread ends only by
\* running off its own loop; the stop call returns; and a stop call for a
\* worker without a reader changes nothing.
C28_StoppedReaderEnds ==
    /\ \A i \in StopReaders : StoppedWhileBlocked(i) ~> ReaderEnded(i)
    /\ \A n \in PipeNames : (rd.stop[n].pc # "idle") ~> (rd.stop[n].pc = "idle")
    /\ [][/\ \A i \in ReaderIds :
                (rd.thr[i].pc # "dead" /\ rd'.thr[i].pc = "dead")
                    => (rd.thr[i].pc = "cleanup" /\ out'.op = "reader" /\ out'.status = i)
          /\ (out'.op = "stop_pipe_reader" /\ rd.stop[out'.name].pc = "idle"
              /\ rd.table[out'.name] = 0)
                => (rd' = rd /\ readers' = readers /\ pipes' = pipes)]_vars

\* bob's reader was blocked in open() when stop was called; it has ended and the
\* join has seen that
C28_Witness ==
    /\ rd.stop["bob"] = [pc |-> "idle", thread |-> 1, at |-> "open"]
    /\ rd.thr[1].pc = "dead" /\ out.op = "stop_pipe_reader" /\ out.ok

\* thread t is inside `with lock:` of tmux_send_message (write, settle, submit)
InSendSection(t) == th[t].op = "send" /\ th[t].pc \in {"text", "sleep", "enter"}

\* C30: a send to an interactive worker that is inside its lock / write /
\* settle / submit sequence never blocks a send to another worker: the guard of
\* the lock table is held during the lookup only, a thread waiting for B's lock
\* can take it unless another send to B is in its sequence, and an exec send
\* takes no lock and can always go on.
C30_SendsToOthersNotBlocked ==
    /\ \A t \in Threads : guard = t => th[t].pc = "in_guard"
    /\ \A t \in Threads : InSendSection(t) => sendLocks[TmuxName(th[t].name)] = t
    /\ \A t \in Threads :
          (th[t].pc = "get_lock" /\ guard = NoThread) => ENABLED EnterGuard(t)
    /\ \A t \in Threads : th[t].pc = "in_guard" => ENABLED LookupLock(t)
    /\ \A t \in Threads :
          (/\ th[t].pc = "acquire"
           /\ \A u \in Threads \ {t} : InSendSection(u) => th[u].name # th[t].name)
             => ENABLED AcquireLock(t)
    /\ \A t \in Threads :
          th[t].op = "exec_send"
             => /\ guard # t /\ \A s \in DOMAIN sendLocks : sendLocks[s] # t
                /\ th[t].pc = "popen" => ENABLED ExecPopen(t)

\* a send to alice and a send to bob are inside their sequences at the same time
C30_Witness ==
    \E t, u \in Threads :
        /\ InSendSection(t) /\ th[t].name = "alice" /\ th[t].pc = "sleep"
        /\ InSendSection(u) /\ th[u].name = "bob" /\ th[u].pc = "enter"

\* the artifacts outside the process: sessions named prefix + n, and state
\* directories of n holding a backend file
HasSession(n) == \E s \in tmux : s[1] = TMUX_PREFIX /\ s[2] = n
HasMarker(n) == backendFile[n] # NoFile

Notifying(t) == th[t].op = "typing" /\ th[t].pc # "done"

\* C32: a notifier thread requests "typing" only as the statement after a test
\* in which is_pending(worker) was true, and a test in which it is false is its
\* last statement; every notifier started eventually ends once no more messages
\* are dispatched, also when no answer ever clears the marker (the marker expires).
C32_NotifierEnds ==
    /\ [][\A t \in Threads :
            /\ (out'.op = "typing" /\ out'.status = t) =>
                    /\ th[t].pc = "signal" /\ th[t].res = "held"
                    /\ out'.replies = <<<<th[t].arg, "typing", th[t].name>>>>
            /\ (th[t].op = "typing" /\ th'[t].pc = "signal" /\ th[t].pc # "signal") =>
                    th[t].pc = "check" /\ is_pending_value(W, th[t].name)
            /\ (th[t].op = "typing" /\ th[t].pc = "check" /\ th'[t] # th[t]) =>
                    (th'[t].pc = "done" <=> ~is_pending_value(W, th[t].name))
            /\ (th[t].op = "typing" /\ th[t].pc = "done") => th'[t] = th[t]]_vars
    /\ \A t \in Threads : Notifying(t) ~> (th[t].pc = "done")

\* C32 witness: a notifier has ended at a test that found the marker there and
\* expired (no answer and no failed send had removed it), while another
\* notifier is still running.
C32_Witness ==
    /\ out.op = "typing-check" /\ ~out.answer /\ out.ok
    /\ th[out.status].pc = "done" /\ th[out.status].res = "gone"
    /\ pendingFile[out.name] = NoFile
    /\ \E t \in Threads : t # out.status /\ Notifying(t)

\* a route_message with a message id whose send to an interactive worker went
\* through (the text and Enter were typed into the session)
SentInteractive ==
    /\ out.op = "route_message" /\ out.status # 0
    /\ out.sends # <<>> /\ out.sends[Len(out.sends)][3]
    /\ out.keys # <<>>

Acknowledged == \E i \in 1..Len(out.events) : out.events[i] = <<"reaction", out.name>>

\* C33: when the acceptance poll after a successful send to an interactive
\* worker runs out, the send stands: the marker is set, the text was typed
\* once, nothing is cleared or replied; only the reaction is left out (and it is
\* requested when the poll sees the empty prompt).
C33_PollTimeoutKeepsSend ==
    SentInteractive =>
        /\ is_pending_value(W, out.name)
        /\ Len(out.sends) = 1
        /\ out.keys = <<<<TmuxName(out.name), <<"-l", "hi">>>>,
                        <<TmuxName(out.name), <<"Enter">>>>>>
        /\ out.replies = <<>>
        /\ \A i \in 1..Len(out.events) : out.events[i][1] # "clear_pending"
        /\ Acknowledged <=> out.answer

\* C33 witness: such a send whose poll ran out
C33_Witness ==
    /\ SentInteractive
    /\ ~out.answer
    /\ ~Acknowledged
    /\ pendingFile[out.name] # NoFile

\* C34 (as claimed): in every session's keystroke stream a send's literal text
\* is followed, if by anything, by a keystroke of the same sender: the Escape of
\* a pause and the start command of a restart never come between a send's text
\* and its Enter.
C34_NoKeystrokeInsideSend ==
    \A n \in KeyNames : \A i \in 1..Len(pane[n]) :
        (pane[n][i].key = "text" /\ i < Len(pane[n])) =>
            pane[n][i + 1].by = pane[n][i].by

\* C35 (as claimed): with start_pipe_reader(n) called from several handler
\* threads at once, n never has more than one reader thread that was started
\* and has not ended.
C35_OneReaderUnderConcurrentStart ==
    \A n \in StartNames :
        \A i, j \in 1..Len(rd.thr) :
            (rd.thr[i].name = n /\ rd.thr[j].name = n
               /\ rd.thr[i].pc # "dead" /\ rd.thr[j].pc # "dead") => i = j

\* C36 (as claimed): a reader thread that ends removes from the reader table
\* only an entry that refers to itself: when it ends after its stop gave up
\* waiting and a newer reader was entered for the same name, the newer entry
\* stays (so the table has an entry for n whenever n's newest reader is alive).
C36_LateReaderKeepsNewerEntry ==
    [][\A i \in 1..Len(rd.thr) :
          (rd.thr[i].pc # "dead" /\ rd'.thr[i].pc = "dead"
             /\ rd.table[rd.thr[i].name] # i)
          => rd'.table[rd.thr[i].name] = rd.table[rd.thr[i].name]]_vars

\* C37 (as claimed): when end(n) has returned success, is_pending(n) is false
\* (so every notifier of n leaves at its next test), whether n was an
\* interactive or an exec worker.
C37_EndStopsPending ==
    (out.op = "end" /\ out.ok) => ~is_pending_value(W, out.name)

\* C38 (as claimed): once the admin chat is set (from the environment or by the
\* first message), a text message from another chat causes no send, changes
\* no session, marker file, focus or persisted focus, and is answered with
\* nothing, the startup notification included.
C38_NonAdminCausesNothing ==
    [][(out'.op = "message" /\ adminChat # NoChat /\ out'.msg.chat # adminChat)
       => /\ out'.sends = <<>> /\ out'.keys = <<>> /\ out'.spawns = <<>>
          /\ out'.replies = <<>>
          /\ tmux' = tmux /\ backendFile' = backendFile
          /\ pendingFile' = pendingFile /\ chatIdFile' = chatIdFile
          /\ active' = active /\ lastActive' = lastActive
          /\ adminChat' = adminChat]_vars

\* C39 (as claimed): the admin chat, once assigned, is never assigned again, and
\* of first messages handled at the same time on different threads only those
\* of one chat get past the admin test.
C39_AdminAssignedOnce ==
    /\ [][adminChat # NoChat => adminChat' = adminChat]_vars
    /\ [](\A t, u \in Threads :
            (th[t].pc = "processed" /\ th[u].pc = "processed") => th[t].arg = th[u].arg)

Sending(t) == th[t].op = "send" /\ th[t].pc # "done"

\* C40: every send to an interactive worker returns, and a thread that has
\* returned holds neither the session's lock nor the table's guard, whether
\* its send-keys calls succeeded or failed; with several threads sending to the
\* same worker each of them gets the lock and returns.
C40_EverySendReturns ==
    /\ \A t \in Threads : Sending(t) ~> (th[t].pc = "done")
    /\ [](\A t \in Threads :
            th[t].pc = "done" =>
                /\ guard # t
                /\ \A s \in DOMAIN sendLocks : sendLocks[s] # t)

\* C40 witness: two threads have sent to alice and returned, the first with
\* its text typed and its Enter refused (the session was killed in between),
\* the second refused at once; alice's lock is free.
C40_Witness ==
    \E t, u \in Threads :
        /\ t # u
        /\ th[t].name = "alice" /\ th[t].pc = "done" /\ th[t].res = "False"
        /\ th[u].name = "alice" /\ th[u].pc = "done"
        /\ pane["alice"] = <<Keystroke("text", t)>>
        /\ TmuxName("alice") \in DOMAIN sendLocks
        /\ sendLocks[TmuxName("alice")] = NoThread

====
